---- MODULE Spec2Model ----
(***************************************************************************)
(* A model of sash (SAne SHell wrapper): the variables engine              *)
(* (variables_engine.hpp), the command tree (command.hpp) and the          *)
(* mode-based command line (command_line.hpp, mode.hpp) with the backend   *)
(* of each mode (libedit_backend.hpp) and its completer (completer.hpp).   *)
(*                                                                         *)
(* A std::string is a sequence of one-character strings; an iterator into  *)
(* a string is its zero-based offset, so in.begin() is 0, in.end() is      *)
(* Len(in) and *i is in[i + 1].                                            *)
(***************************************************************************)
EXTENDS Integers, Sequences, FiniteSets, TLC

VARIABLES
    variables_,     \* variables_engine::variables_ of the engine used directly
    commands,       \* the command objects: commands[n] is the command with
                    \* address n, its parent_ and children_ are addresses
    completers,     \* the completer objects: completers[c] is the completer
                    \* with address c
    mode_objs,      \* the mode objects: mode_objs[m] is the mode with address m
    modes_,         \* command_line::modes_: registered name -> mode address
    mode_stack_,    \* command_line::mode_stack_: mode addresses, back() last
    preprocessors_, \* command_line::preprocessors_: the variables_ of the
                    \* engine each registered closure holds
    last_error_,    \* command_line::last_error_
    pc,             \* "idle": the caller is between calls; "done": a call has
                    \* returned and its arguments and results are in `call`;
                    \* "running": a parse followed step by step is under way
    call            \* the last call: its arguments and what it left behind

vars == <<variables_, commands, completers, mode_objs, modes_, mode_stack_,
          preprocessors_, last_error_, pc, call>>

\* the state of a command_line, its command trees aside
shell == <<mode_objs, modes_, mode_stack_, preprocessors_, last_error_>>

----------------------------------------------------------------------------
(* Bounds of the model. *)

\* longest input line handed to parse
MaxLen == 4
\* most command objects constructed, roots included
MaxNodes == 3
\* most mode objects constructed
MaxModes == 2
\* deepest mode stack
MaxStack == 2
\* most preprocessors registered
MaxPre == 2
\* longest line handed to execute
MaxCmdLen == 5

----------------------------------------------------------------------------
(* Strings. *)

EmptyString == << >>

\* std::string(first, last) for offsets first <= last
Range(s, first, last) == SubSeq(s, first + 1, last)

\* the characters std::isalnum accepts, among those the model uses
AlnumChars == {"x", "y", "z", "a", "b", "f", "0", "1", "2", "3", "4", "5",
               "6", "7", "8", "9"}

Digit(d) == CASE d = 0 -> "0" [] d = 1 -> "1" [] d = 2 -> "2" [] d = 3 -> "3"
              [] d = 4 -> "4" [] d = 5 -> "5" [] d = 6 -> "6" [] d = 7 -> "7"
              [] d = 8 -> "8" [] d = 9 -> "9"

RECURSIVE to_string(_)
to_string(n) == IF n < 10 THEN <<Digit(n)>>
                ELSE to_string(n \div 10) \o <<Digit(n % 10)>>

RECURSIVE StringsUpTo(_, _)
StringsUpTo(alphabet, n) ==
    IF n = 0 THEN {EmptyString}
    ELSE LET shorter == StringsUpTo(alphabet, n - 1)
         IN  shorter \cup {Append(s, ch) : s \in shorter, ch \in alphabet}

----------------------------------------------------------------------------
(* variables_engine *)

\* std::map<std::string, std::string>: a function on the bound names
NoVariables == [k \in {} |-> EmptyString]

\* the lookup as it would be if it never found a binding
find_nothing(table, name) == EmptyString

find(table, name) == IF name \in DOMAIN table THEN table[name] ELSE EmptyString

\* std::map::emplace: inserts only if the key is absent
\* emplace as it would be if it stored nothing
emplace_nothing(table, key, value) == table

emplace(table, key, value) ==
    IF key \in DOMAIN table THEN table
    ELSE [k \in DOMAIN table \cup {key} |-> IF k = key THEN value ELSE table[k]]

\* set as it would be if it inserted like emplace
assign_if_absent(table, key, value) ==
    IF key \in DOMAIN table THEN table
    ELSE [k \in DOMAIN table \cup {key} |-> IF k = key THEN value ELSE table[k]]

\* operator[] followed by assignment
assign(table, key, value) ==
    [k \in DOMAIN table \cup {key} |-> IF k = key THEN value ELSE table[k]]

erase(table, key) == [k \in DOMAIN table \ {key} |-> table[k]]

valid_varname_char(c) == c \in AlnumChars \/ c = "_"

all_valid(in, first, last) ==
    \A k \in first + 1 .. last : valid_varname_char(in[k])

\* the stream prefix every positioned error starts with
set_error(s) == <<"syntax error at position ">> \o to_string(s.i) \o <<": ">>

MissingBrace == <<"syntax error: missing '}' at end of line">>

\* the read_variable case of flush: look the name up and append its value
flush_variable(in, s) ==
    LET varname == Range(in, s.pos, s.i)
    IN  [ok |-> TRUE,
         s  |-> [s EXCEPT !.out = @ \o find(s.variables_, varname),
                          !.state = "traverse",
                          !.pos = s.i]]

\* the lambda flush of parse: write out what the current state has pending
flush(in, s) ==
    CASE s.state = "traverse" ->
           [ok |-> TRUE,
            s  |-> [s EXCEPT !.out = IF s.pos # Len(in)
                                     THEN @ \o Range(in, s.pos, s.i) ELSE @]]
      [] s.state = "after_dollar_sign" ->
           [ok |-> FALSE,
            s  |-> [s EXCEPT
                      !.oss = @ \o set_error(s) \o
                              (IF s.i = Len(in) THEN <<"$ at end of line">>
                               ELSE IF in[s.i + 1] = "$"
                                    THEN <<"$$ is not a valid expression">>
                               ELSE <<"unexpected character '", in[s.i + 1],
                                      "' after $">>),
                      !.out = EmptyString]]
      [] s.state = "read_braced_variable" ->
           IF ~valid_varname_char(s.c) /\ s.c # "}"
           THEN [ok |-> FALSE,
                 s  |-> [s EXCEPT
                           !.oss = @ \o set_error(s) \o
                                   <<"'", s.c,
                                     "' is an invalid character inside ${...}">>]]
           ELSE flush_variable(in, s)
      [] s.state = "read_variable" -> flush_variable(in, s)

\* ~raii_error_string: a streamed error replaces err, otherwise err is kept
destroy_scoped_err(s) == IF s.oss # EmptyString THEN [s EXCEPT !.err = s.oss] ELSE s

\* lastc = c; ++i at the bottom of the loop
advance(s) == [s EXCEPT !.lastc = s.c, !.i = s.i + 1]

\* the assignment branch as it would be without the check of err
commit_always(table, err, key, value) == emplace(table, key, value)

\* the binding an assignment line stores once its value has been parsed
commit(table, err, key, value) ==
    IF err = EmptyString THEN emplace(table, key, value) ELSE table

\* the test of the '=' case as it would be without the check of sub_parse
is_assignment_anywhere(in, sub_parse, s) ==
    s.i # s.pos /\ s.pos = 0 /\ all_valid(in, s.pos, s.i)

\* the test of the '=' case: the line is an assignment
is_assignment(in, sub_parse, s) ==
    ~sub_parse /\ s.i # s.pos /\ s.pos = 0 /\ all_valid(in, s.pos, s.i)

\* the test of the '$' case as it would be without escaping
never_escaped(s) == FALSE

\* the test of the '$' case: the '$' follows a backslash
escaped(s) == s.lastc = "\\"

\* the locals of parse before the loop
entry(table, err, out) ==
    [i |-> 0, pos |-> 0, c |-> "\\0", lastc |-> " ", state |-> "traverse",
     oss |-> EmptyString, err |-> err, out |-> out, variables_ |-> table]

RECURSIVE parse(_, _, _, _, _)
RECURSIVE scan(_, _, _)

\* the while loop of parse and what follows it, from the scanner state s
scan(in, sub_parse, s) ==
    IF s.i = Len(in)
    THEN \* end of input
         LET s1 == IF s.state = "read_braced_variable"
                   THEN [s EXCEPT !.err = MissingBrace] ELSE s
         IN  destroy_scoped_err(flush(in, s1).s)
    ELSE
    LET c  == in[s.i + 1]
        sc == [s EXCEPT !.c = c]
        flushed == flush(in, sc)
    IN  CASE c = "=" ->
               IF is_assignment(in, sub_parse, sc)
               THEN LET key == Range(in, sc.pos, sc.i)
                        val_input == Range(in, sc.i + 1, Len(in))
                        sub == parse(sc.variables_, sc.err, val_input,
                                     EmptyString, TRUE)
                    IN  destroy_scoped_err(
                          [sc EXCEPT !.out = EmptyString,
                                     !.err = sub.err,
                                     !.variables_ = commit(sc.variables_, sub.err,
                                                           key, sub.out)])
               ELSE scan(in, sub_parse, advance(sc))
          [] c = "$" ->
               IF escaped(sc) THEN scan(in, sub_parse, advance(sc))
               ELSE IF ~flushed.ok THEN destroy_scoped_err(flushed.s)
               ELSE scan(in, sub_parse,
                         advance([flushed.s EXCEPT !.state = "after_dollar_sign",
                                                   !.pos = sc.i + 1]))
          [] c = "{" ->
               IF sc.state = "after_dollar_sign"
               THEN scan(in, sub_parse,
                         advance([sc EXCEPT !.pos = sc.i + 1,
                                            !.state = "read_braced_variable"]))
               ELSE scan(in, sub_parse, advance(sc))
          [] c = "}" /\ sc.state = "read_braced_variable" ->
               IF ~flushed.ok THEN destroy_scoped_err(flushed.s)
               ELSE scan(in, sub_parse, advance([flushed.s EXCEPT !.pos = sc.i + 1]))
          [] OTHER ->
               IF ~valid_varname_char(c) /\ sc.state # "traverse"
               THEN IF ~flushed.ok THEN destroy_scoped_err(flushed.s)
                    ELSE scan(in, sub_parse, advance(flushed.s))
               ELSE IF sc.state = "after_dollar_sign"
               THEN scan(in, sub_parse,
                         advance([sc EXCEPT !.pos = sc.i, !.state = "read_variable"]))
               ELSE scan(in, sub_parse, advance(sc))

\* variables_engine::parse(err, in, out, sub_parse) on an engine holding
\* `table`: the err, out and bindings it leaves
parse(table, err, in, out, sub_parse) ==
    LET r == scan(in, sub_parse, entry(table, err, out))
    IN  [err |-> r.err, out |-> r.out, variables_ |-> r.variables_]

\* one pass through the body of the while loop, from `c = *i` to `++i`:
\* "next" when the loop goes on, "return" when parse returns from inside
\* the loop, "call" when the assignment branch is about to call parse for the
\* right-hand side
body(in, sub_parse, s) ==
    LET c  == in[s.i + 1]
        sc == [s EXCEPT !.c = c]
        flushed == flush(in, sc)
        next(t) == [kind |-> "next", s |-> advance(t)]
        return(t) == [kind |-> "return", s |-> t]
    IN  CASE c = "=" ->
               IF is_assignment(in, sub_parse, sc)
               THEN [kind |-> "call", s |-> [sc EXCEPT !.out = EmptyString],
                     key |-> Range(in, sc.pos, sc.i),
                     val_input |-> Range(in, sc.i + 1, Len(in))]
               ELSE next(sc)
          [] c = "$" ->
               IF escaped(sc) THEN next(sc)
               ELSE IF ~flushed.ok THEN return(flushed.s)
               ELSE next([flushed.s EXCEPT !.state = "after_dollar_sign",
                                           !.pos = sc.i + 1])
          [] c = "{" ->
               IF sc.state = "after_dollar_sign"
               THEN next([sc EXCEPT !.pos = sc.i + 1,
                                    !.state = "read_braced_variable"])
               ELSE next(sc)
          [] c = "}" /\ sc.state = "read_braced_variable" ->
               IF ~flushed.ok THEN return(flushed.s)
               ELSE next([flushed.s EXCEPT !.pos = sc.i + 1])
          [] OTHER ->
               IF ~valid_varname_char(c) /\ sc.state # "traverse"
               THEN IF ~flushed.ok THEN return(flushed.s)
                    ELSE next(flushed.s)
               ELSE IF sc.state = "after_dollar_sign"
               THEN next([sc EXCEPT !.pos = sc.i, !.state = "read_variable"])
               ELSE next(sc)

\* what follows the while loop: the missing '}' and the last flush
after_loop(in, s) ==
    flush(in, IF s.state = "read_braced_variable"
              THEN [s EXCEPT !.err = MissingBrace] ELSE s).s

\* the activation of parse on `in`; key is the left-hand side while the
\* activation waits for the parse of its right-hand side
new_frame(in, sub_parse, s) ==
    [in |-> in, sub_parse |-> sub_parse, s |-> s, key |-> EmptyString]

\* the return of the innermost activation with scanner state s: its caller,
\* if any, stores the binding and returns in turn
RECURSIVE unwind(_, _)
unwind(frames, s) ==
    LET r == destroy_scoped_err(s)
    IN  IF frames = << >> THEN r
        ELSE LET caller == frames[Len(frames)]
             IN  unwind(SubSeq(frames, 1, Len(frames) - 1),
                        [caller.s EXCEPT
                           !.err = r.err,
                           !.variables_ = commit(caller.s.variables_, r.err,
                                                 caller.key, r.out)])

----------------------------------------------------------------------------
(* completer *)

\* completion_result
CompletionResults == {"completed", "not_found", "no_completion"}

\* an empty CompletionCallback; a set callback is named by the string it
\* returns
NoCallback == "none"

\* a completer after construction
new_completer == [strings_ |-> << >>, callback_ |-> NoCallback]

\* completer::add_completion: the completer afterwards and the value returned
add_completion(comp, str) ==
    IF \E k \in 1 .. Len(comp.strings_) : comp.strings_[k] = str
    THEN [completer |-> comp, result |-> FALSE]
    ELSE [completer |-> [comp EXCEPT !.strings_ = Append(@, str)],
          result |-> TRUE]

\* strings_.erase(i)
erase_at(strings, i) ==
    SubSeq(strings, 1, i - 1) \o SubSeq(strings, i + 1, Len(strings))

\* completer::remove_completion: std::find gives the first occurrence
remove_completion(comp, str) ==
    LET found == {k \in 1 .. Len(comp.strings_) : comp.strings_[k] = str}
    IN  IF found = {}
        THEN [completer |-> comp, result |-> FALSE]
        ELSE [completer |->
                [comp EXCEPT !.strings_ =
                    erase_at(@, CHOOSE k \in found : \A j \in found : k <= j)],
              result |-> TRUE]

\* completer::replace_completions
replace_completions(comp, completions) ==
    [comp EXCEPT !.strings_ = completions]

\* completer::on_completion
on_completion(comp, f) == [comp EXCEPT !.callback_ = f]

\* str.compare(0, prefix.size(), prefix) == 0
compare_equal(str, prefix) ==
    SubSeq(str, 1, IF Len(prefix) < Len(str) THEN Len(prefix) ELSE Len(str))
      = prefix

\* the for loop of complete: the strings of strings_ that compare equal, in
\* the order of strings_
RECURSIVE matches_of(_, _)
matches_of(strings, prefix) ==
    IF strings = << >> THEN << >>
    ELSE (IF compare_equal(Head(strings), prefix) THEN <<Head(strings)>>
          ELSE << >>) \o matches_of(Tail(strings), prefix)

\* completer::complete: the code returned, result afterwards and the calls
\* of the callback, each with its arguments
complete(comp, result, prefix) ==
    IF comp.callback_ = NoCallback
    THEN [code |-> "no_completion", result |-> result, invoked |-> << >>]
    ELSE IF comp.strings_ = << >>
    THEN [code |-> "not_found", result |-> result, invoked |-> << >>]
    ELSE [code |-> "completed", result |-> comp.callback_,
          invoked |-> <<[prefix |-> prefix,
                         matches |-> matches_of(comp.strings_, prefix)]>>]

----------------------------------------------------------------------------
(* command *)

\* command_result
Results == {"executed", "nop", "no_command"}

\* an empty std::function; a set handler is named by the result it returns
NoHandler == "none"

\* parent_ of a root
nullptr == 0

\* the members of a command after the initializer list of command::command
new_command(parent, comp, name, desc) ==
    [parent_ |-> parent, completer_ |-> comp, children_ |-> << >>,
     name_ |-> name, description_ |-> desc, handler_ |-> NoHandler]

\* is_root as it would be if no command counted as a root
is_root_never(cmds, n) == FALSE

is_root(cmds, n) == cmds[n].parent_ = nullptr

RECURSIVE reverse(_)
reverse(s) == IF s = << >> THEN << >>
              ELSE Append(reverse(Tail(s)), Head(s))

\* the for loop of absolute_name: from ancestor i on, append each reversed
\* name to result
RECURSIVE append_ancestors(_, _, _)
append_ancestors(cmds, i, result) ==
    IF i = nullptr THEN result
    ELSE append_ancestors(cmds, cmds[i].parent_,
                          (IF result # << >> THEN Append(result, " ") ELSE result)
                            \o reverse(cmds[i].name_))

\* command::absolute_name
absolute_name(cmds, n) ==
    IF is_root(cmds, n) THEN EmptyString
    ELSE reverse(append_ancestors(cmds, cmds[n].parent_, reverse(cmds[n].name_)))

\* the body of command::command as it would be if it registered nothing
constructed_silently(cmds, comps, n) == comps

\* the body of command::command for the command just constructed at address
\* n: unless it is a root, its absolute name and a space are registered with
\* its completer
constructed(cmds, comps, n) ==
    IF ~is_root(cmds, n)
    THEN [comps EXCEPT ![cmds[n].completer_] =
            add_completion(@, absolute_name(cmds, n) \o <<" ">>).completer]
    ELSE comps

\* std::make_shared<command>(this->shared_from_this(), completer_, name,
\* desc) and children_.push_back of it
push_back_child(cmds, comps, n, name, desc) ==
    LET child == Len(cmds) + 1
        made == Append(cmds, new_command(n, cmds[n].completer_, name, desc))
    IN  [commands |-> [made EXCEPT ![n].children_ = Append(@, child)],
         completers |-> constructed(made, comps, child),
         ptr |-> child]

\* add as it would be without the check of the name
add_unchecked(cmds, comps, n, name, desc) ==
    push_back_child(cmds, comps, n, name, desc)

\* command::add: the tree and the completers afterwards and the pointer
\* returned
add(cmds, comps, n, name, desc) ==
    IF name = EmptyString
       \/ \E k \in 1 .. Len(cmds[n].children_) :
             cmds[cmds[n].children_[k]].name_ = name
    THEN [commands |-> cmds, completers |-> comps, ptr |-> nullptr]
    ELSE push_back_child(cmds, comps, n, name, desc)

\* command::on
on(cmds, n, f) == [cmds EXCEPT ![n].handler_ = f]

\* std::find(first, last, ' ') on a whole string: the offset of the first
\* space, or the length if there is none
find_space(line) ==
    LET spaces == {k \in 1 .. Len(line) : line[k] = " "}
    IN  IF spaces = {} THEN Len(line)
        ELSE (CHOOSE k \in spaces : \A j \in spaces : k <= j) - 1

\* the comparison as it would be if a name matched every token it begins
names_prefix(line, delim, n) ==
    /\ Len(n) <= delim
    /\ \A k \in 1 .. Len(n) : line[k] = n[k]

\* dist == n.size() && std::equal(first, delim, n.begin())
names(line, delim, n) ==
    /\ delim = Len(n)
    /\ \A k \in 1 .. delim : line[k] = n[k]

\* the remaining input as it would be with the separating space kept
rest_with_space(line, delim) == Range(line, delim, Len(line))

\* the remaining input handed to the matching child
rest(line, delim) ==
    IF delim = Len(line) THEN EmptyString ELSE Range(line, delim + 1, Len(line))

\* the text written as it would be with the whole remaining input named
not_found_whole(line, delim) == line \o <<": command not found">>

\* the text written when nothing matches
not_found(line, delim) == Range(line, 0, delim) \o <<": command not found">>

\* the call of the handler as it would be if its result were dropped
invoke_reporting_executed(cmds, n, err, line) ==
    [result |-> "executed", err |-> err,
     invoked |-> <<[command |-> n, input |-> line]>>, path |-> << >>]

\* return handler_(err, first, last): the handler of n is given the whole
\* remaining input and its result is returned
invoke(cmds, n, err, line) ==
    [result |-> cmds[n].handler_, err |-> err,
     invoked |-> <<[command |-> n, input |-> line]>>, path |-> << >>]

\* what execute on command n returns seen from its parent: n is put in
\* front of the children descended into
descended(n, r) == [r EXCEPT !.path = <<n>> \o @]

\* command::execute on command n: the result, the err left behind, the
\* handlers invoked, each with the input it was given, and the children
\* descended into, outermost first
RECURSIVE execute(_, _, _, _)
execute(cmds, n, err, line) ==
    IF is_root(cmds, n) /\ line = EmptyString
    THEN [result |-> "nop", err |-> err, invoked |-> << >>, path |-> << >>]
    ELSE
    LET delim == find_space(line)
        children == cmds[n].children_
        matching == {k \in 1 .. Len(children) :
                        names(line, delim, cmds[children[k]].name_)}
    IN  IF matching # {}
        THEN LET first == CHOOSE k \in matching : \A j \in matching : k <= j
             IN  descended(children[first],
                           execute(cmds, children[first], err, rest(line, delim)))
        ELSE IF cmds[n].handler_ # NoHandler
        THEN invoke(cmds, n, err, line)
        ELSE [result |-> "no_command", err |-> not_found(line, delim),
              invoked |-> << >>, path |-> << >>]

----------------------------------------------------------------------------
(* libedit_backend *)

\* end of input as the character-read callback meets it
EndOfInput == "eof"

\* the members of a backend after its constructor: the completer it made
\* and eof_
new_backend(comp) == [completer_ |-> comp, eof_ |-> FALSE]

\* reset as it would be if it forgot the end of input
reset_forgetting(b) == [b EXCEPT !.eof_ = FALSE]

\* libedit_backend::reset: el_reset leaves the members alone
reset(b) == b

\* libedit_backend::eof
eof(b) == b.eof_

\* the character-read callback on one character of the input: the end of
\* input is recorded in eof_
cr_callback(b, ch) == IF ch = EndOfInput THEN [b EXCEPT !.eof_ = TRUE] ELSE b

\* libedit_backend::read_char with `ch` next in the input: the backend
\* afterwards, the value returned and c; the input is not touched once eof_
\* is set
backend_read_char(b, c, ch) ==
    IF eof(b) THEN [backend |-> b, result |-> FALSE, c |-> c]
    ELSE IF ch = EndOfInput
    THEN [backend |-> cr_callback(b, ch), result |-> FALSE, c |-> c]
    ELSE [backend |-> cr_callback(b, ch), result |-> TRUE, c |-> ch]

\* the loop of read_line that drops '\n' and '\r' from the end
RECURSIVE chomp(_)
chomp(str) ==
    IF str # << >> /\ str[Len(str)] \in {"\n", "\r"}
    THEN chomp(SubSeq(str, 1, Len(str) - 1))
    ELSE str

\* libedit_backend::read_line with the characters `typed` next in the input,
\* ended by a newline or, if `ended`, by the end of input
backend_read_line(b, line, typed, ended) ==
    IF eof(b) THEN [backend |-> b, result |-> FALSE, line |-> line]
    ELSE IF ended
    THEN [backend |-> cr_callback(b, EndOfInput), result |-> FALSE,
          line |-> EmptyString]
    ELSE [backend |-> b, result |-> TRUE, line |-> chomp(typed \o <<"\n">>)]

----------------------------------------------------------------------------
(* mode and command_line *)

\* the message as it would be if none were written
StackEmptySilent == << >>

StackEmpty == <<"command_line: mode stack is empty">>

\* mode::mode: the mode object, its backend with the completer the backend
\* made and its root command
new_mode(comp, root) == [backend_ |-> new_backend(comp), root_ |-> root]

\* mode::add with a handler as it would be if a refused name passed the
\* handler on to the command that carries the name
add_handled_overriding(cmds, comps, objs, m, name, desc, func) ==
    LET r == add(cmds, comps, objs[m].root_, name, desc)
        taken == {n \in 1 .. Len(cmds) : /\ cmds[n].parent_ = objs[m].root_
                                         /\ cmds[n].name_ = name}
    IN  IF r.ptr # nullptr
        THEN [r EXCEPT !.commands = on(@, r.ptr, func)]
        ELSE [r EXCEPT !.commands =
                [n \in 1 .. Len(cmds) |->
                    IF n \in taken THEN [cmds[n] EXCEPT !.handler_ = func]
                    ELSE cmds[n]]]

\* mode::add with a handler: root_->add, then on for the command returned
add_handled(cmds, comps, objs, m, name, desc, func) ==
    LET r == add(cmds, comps, objs[m].root_, name, desc)
    IN  IF r.ptr # nullptr
        THEN [r EXCEPT !.commands = on(@, r.ptr, func)]
        ELSE r

\* mode::add_all: add for each clause in order
RECURSIVE add_all(_, _, _, _, _)
add_all(cmds, comps, objs, m, clauses) ==
    IF clauses = << >>
    THEN [commands |-> cmds, completers |-> comps]
    ELSE LET r == add_handled(cmds, comps, objs, m, Head(clauses).cmd_name,
                              Head(clauses).cmd_desc, Head(clauses).cmd_fun)
         IN  add_all(r.commands, r.completers, objs, m, Tail(clauses))

\* mode_add as it would be if it replaced a registered mode
mode_add_replacing(cmds, comps, objs, registry, name) ==
    [commands |-> Append(cmds, new_command(nullptr, Len(comps) + 1, name,
                                           EmptyString)),
     completers |-> Append(comps, new_completer),
     mode_objs |-> Append(objs, new_mode(Len(comps) + 1, Len(cmds) + 1)),
     modes_ |-> [k \in DOMAIN registry \cup {name} |->
                   IF k = name THEN Len(objs) + 1 ELSE registry[k]],
     ptr |-> Len(objs) + 1]

\* command_line::mode_add: the objects and registry afterwards, and the
\* pointer returned; the root is constructed with the completer of the
\* mode's backend, the mode's name and an empty description
mode_add(cmds, comps, objs, registry, name) ==
    IF name \notin DOMAIN registry
    THEN LET m == Len(objs) + 1
             comp == Len(comps) + 1
             root == Len(cmds) + 1
             made == Append(cmds, new_command(nullptr, comp, name, EmptyString))
         IN  [commands |-> made,
              completers |-> constructed(made, Append(comps, new_completer),
                                         root),
              mode_objs |-> Append(objs, new_mode(comp, root)),
              modes_ |-> [k \in DOMAIN registry \cup {name} |->
                            IF k = name THEN m ELSE registry[k]],
              ptr |-> m]
    ELSE [commands |-> cmds, completers |-> comps, mode_objs |-> objs,
          modes_ |-> registry, ptr |-> nullptr]

\* mode_rm as it would be if it emptied the registry
mode_rm_all(registry, name) ==
    [modes_ |-> [k \in {} |-> 0], result |-> name \in DOMAIN registry]

\* command_line::mode_rm
mode_rm(registry, name) ==
    [modes_ |-> [k \in DOMAIN registry \ {name} |-> registry[k]],
     result |-> name \in DOMAIN registry]

\* mode_push as it would be if a mode could be on the stack only once
mode_push_once(registry, stack, name) ==
    IF name \notin DOMAIN registry
       \/ \E k \in 1 .. Len(stack) : stack[k] = registry[name]
    THEN [mode_stack_ |-> stack, result |-> FALSE]
    ELSE [mode_stack_ |-> Append(stack, registry[name]), result |-> TRUE]

\* command_line::mode_push
mode_push(registry, stack, name) ==
    IF name \notin DOMAIN registry
    THEN [mode_stack_ |-> stack, result |-> FALSE]
    ELSE [mode_stack_ |-> Append(stack, registry[name]), result |-> TRUE]

\* mode_pop as it would be if it removed the oldest entry
mode_pop_front(stack) ==
    IF stack = << >>
    THEN [mode_stack_ |-> stack, result |-> FALSE]
    ELSE [mode_stack_ |-> Tail(stack), result |-> TRUE]

\* command_line::mode_pop
mode_pop(stack) ==
    IF stack = << >>
    THEN [mode_stack_ |-> stack, result |-> FALSE]
    ELSE [mode_stack_ |-> SubSeq(stack, 1, Len(stack) - 1), result |-> TRUE]

\* the mode dispatched to as it would be if it were the bottom of the stack
front(stack) == stack[1]

\* mode_stack_.back()
back(stack) == stack[Len(stack)]

\* command_line::current_backend: the address of the mode whose backend it
\* is, or nullptr
current_backend(stack) == IF stack = << >> THEN nullptr ELSE back(stack)

\* isspace in the "C" locale
isspace(c) == c \in {" ", "\t", "\n", "\r", "\f"}

\* the two erase calls of read_line: leading and trailing whitespace goes
RECURSIVE trim(_)
trim(line) ==
    IF line = << >> THEN line
    ELSE IF isspace(Head(line)) THEN trim(Tail(line))
    ELSE IF isspace(line[Len(line)]) THEN trim(SubSeq(line, 1, Len(line) - 1))
    ELSE line

\* command_line::read_char with `ch` next in the input: the mode objects
\* afterwards, the value returned, c, and the calls made on backends in order
read_char(objs, stack, c, ch) ==
    LET bptr == current_backend(stack)
    IN  IF bptr = nullptr
        THEN [mode_objs |-> objs, result |-> FALSE, c |-> c,
              backend_calls |-> << >>]
        ELSE LET r == backend_read_char(objs[bptr].backend_, c, ch)
             IN  [mode_objs |-> [objs EXCEPT ![bptr].backend_ = r.backend],
                  result |-> r.result, c |-> r.c,
                  backend_calls |-> <<[backend |-> bptr, op |-> "read_char"]>>]

\* command_line::read_line with `typed` next in the input, ended by a
\* newline or, if `ended`, by the end of input
read_line(objs, stack, line, typed, ended) ==
    LET bptr == current_backend(stack)
    IN  IF bptr = nullptr
        THEN [mode_objs |-> objs, result |-> FALSE, line |-> line,
              backend_calls |-> << >>]
        ELSE LET r == backend_read_line(reset(objs[bptr].backend_), line,
                                        typed, ended)
                 calls == <<[backend |-> bptr, op |-> "reset"],
                            [backend |-> bptr, op |-> "read_line"]>>
             IN  [mode_objs |-> [objs EXCEPT ![bptr].backend_ = r.backend],
                  result |-> r.result,
                  line |-> IF r.result THEN trim(r.line) ELSE r.line,
                  backend_calls |-> calls]

\* the for loop of process from preprocessor k on, with the buffers in and
\* out; last_error_ is empty whenever the loop is entered.  `chain` logs
\* every call of a preprocessor: what it was given and what it left.
RECURSIVE run_preprocessors(_, _, _, _, _)
RECURSIVE preprocessed(_, _, _, _, _, _)

\* the loop body as it would be without the check of last_error_
preprocessed_past_errors(pre, k, in, out, chain, r) ==
    run_preprocessors([pre EXCEPT ![k] = r.variables_], k + 1, r.out, in,
                      Append(chain, [in |-> in, out_before |-> out,
                                     out |-> r.out, err |-> r.err]))

\* the loop body as it would be without the check of out
preprocessed_past_empty(pre, k, in, out, chain, r) ==
    IF r.err # EmptyString
    THEN [returned |-> TRUE, result |-> "no_command",
          preprocessors_ |-> [pre EXCEPT ![k] = r.variables_],
          last_error_ |-> r.err,
          chain |-> Append(chain, [in |-> in, out_before |-> out,
                                   out |-> r.out, err |-> r.err])]
    ELSE run_preprocessors([pre EXCEPT ![k] = r.variables_], k + 1, r.out, in,
                           Append(chain, [in |-> in, out_before |-> out,
                                          out |-> r.out, err |-> r.err]))

\* the loop body after p(last_error_, in, out) has returned r
preprocessed(pre, k, in, out, chain, r) ==
    IF r.err # EmptyString
    THEN [returned |-> TRUE, result |-> "no_command",
          preprocessors_ |-> [pre EXCEPT ![k] = r.variables_],
          last_error_ |-> r.err,
          chain |-> Append(chain, [in |-> in, out_before |-> out,
                                   out |-> r.out, err |-> r.err])]
    ELSE IF r.out = EmptyString
    THEN [returned |-> TRUE, result |-> "executed",
          preprocessors_ |-> [pre EXCEPT ![k] = r.variables_],
          last_error_ |-> r.err,
          chain |-> Append(chain, [in |-> in, out_before |-> out,
                                   out |-> r.out, err |-> r.err])]
    ELSE \* in.swap(out)
         run_preprocessors([pre EXCEPT ![k] = r.variables_], k + 1, r.out, in,
                           Append(chain, [in |-> in, out_before |-> out,
                                          out |-> r.out, err |-> r.err]))

run_preprocessors(pre, k, in, out, chain) ==
    IF k > Len(pre)
    THEN [returned |-> FALSE, preprocessors_ |-> pre, in |-> in,
          last_error_ |-> EmptyString, chain |-> chain]
    ELSE preprocessed(pre, k, in, out, chain,
                      parse(pre[k], EmptyString, in, out, FALSE))

\* what process returns once mode::execute has returned r for `line`
dispatched_to(line, pre, chain, r) ==
    [result |-> r.result, last_error_ |-> r.err, preprocessors_ |-> pre,
     chain |-> chain, dispatched |-> <<line>>, invoked |-> r.invoked]

\* mode_stack_.back()->execute(last_error_, line)
dispatch(cmds, objs, stack, err, line, pre, chain) ==
    dispatched_to(line, pre, chain,
                  execute(cmds, objs[back(stack)].root_, err, line))

\* the end of process once the preprocessors have run
preprocessors_done(cmds, objs, stack, r) ==
    IF r.returned
    THEN [result |-> r.result, last_error_ |-> r.last_error_,
          preprocessors_ |-> r.preprocessors_, chain |-> r.chain,
          dispatched |-> << >>, invoked |-> << >>]
    ELSE dispatch(cmds, objs, stack, r.last_error_, r.in, r.preprocessors_,
                  r.chain)

\* command_line::process: the result, the last_error_ and engines it leaves,
\* the preprocessor calls made, the text dispatched to the active mode (none
\* or one) and the handlers invoked
process(cmds, objs, stack, pre, last_error, cmd) ==
    IF cmd = EmptyString
    THEN [result |-> "nop", last_error_ |-> last_error, preprocessors_ |-> pre,
          chain |-> << >>, dispatched |-> << >>, invoked |-> << >>]
    ELSE IF stack = << >>
    THEN [result |-> "no_command", last_error_ |-> StackEmpty,
          preprocessors_ |-> pre,
          chain |-> << >>, dispatched |-> << >>, invoked |-> << >>]
    ELSE IF pre = << >>
    THEN dispatch(cmds, objs, stack, last_error, cmd, pre, << >>)
    ELSE preprocessors_done(cmds, objs, stack,
                            run_preprocessors(pre, 1, cmd, EmptyString, << >>))

----------------------------------------------------------------------------
(* The engine driven directly: set, unset and parse on one engine. *)

\* the characters input lines are made of
LineChars == {"x", "y", "=", "$", "{", "}", " ", "\\"}

Lines == StringsUpTo(LineChars, MaxLen)

\* the names and values handed to set and unset
SetNames == {<<"x">>, <<"y">>}
SetValues == {EmptyString, <<"x">>, <<"$">>}

\* the bindings stay within the names and values of the model
Bounded(table) ==
    /\ DOMAIN table \subseteq SetNames
    /\ \A k \in DOMAIN table : table[k] \in SetValues

NoCall == [op |-> "none"]

\* an empty std::map<std::string, std::shared_ptr<mode_type>>
NoModes == [k \in {} |-> 0]

InitEngine ==
    /\ variables_ = NoVariables
    /\ commands = << >>
    /\ completers = << >>
    /\ mode_objs = << >>
    /\ modes_ = NoModes
    /\ mode_stack_ = << >>
    /\ preprocessors_ = << >>
    /\ last_error_ = EmptyString
    /\ pc = "idle"
    /\ call = NoCall

\* variables_engine::set
Set(identifier, value) ==
    /\ pc = "idle"
    /\ Bounded(assign(variables_, identifier, value))
    /\ variables_' = assign(variables_, identifier, value)
    /\ pc' = "done"
    /\ call' = [op |-> "set", identifier |-> identifier, value |-> value,
                before |-> variables_]
    /\ UNCHANGED <<commands, completers, shell>>

\* variables_engine::unset
Unset(identifier) ==
    /\ pc = "idle"
    /\ variables_' = erase(variables_, identifier)
    /\ pc' = "done"
    /\ call' = [op |-> "unset", identifier |-> identifier, before |-> variables_]
    /\ UNCHANGED <<commands, completers, shell>>

\* a caller's parse(err, in, out) with fresh err and out
Parse(in) ==
    LET r == parse(variables_, EmptyString, in, EmptyString, FALSE)
    IN  /\ pc = "idle"
        /\ Bounded(r.variables_)
        /\ variables_' = r.variables_
        /\ pc' = "done"
        /\ call' = [op |-> "parse", in |-> in, err |-> r.err, out |-> r.out,
                    before |-> variables_]
        /\ UNCHANGED <<commands, completers, shell>>

\* the caller has looked at the results and drops them
Return ==
    /\ pc = "done"
    /\ pc' = "idle"
    /\ call' = NoCall
    /\ UNCHANGED <<variables_, commands, completers, shell>>

SetStep == \E n \in SetNames, v \in SetValues : Set(n, v)
UnsetStep == \E n \in SetNames : Unset(n)
ParseStep == \E in \in Lines : Parse(in)

NextEngine == SetStep \/ UnsetStep \/ ParseStep \/ Return

SpecEngine == InitEngine /\ [][NextEngine]_vars

----------------------------------------------------------------------------
(* One parse followed statement by statement on an engine fresh from        *)
(* create: each pass through the loop is a step, and so is the end of an    *)
(* activation.                                                              *)

\* the characters the lines followed are made of
ScanChars == {"x", "=", "$", "{", "}", "\\"}
ScanLines == StringsUpTo(ScanChars, MaxLen)
\* the bindings handed to create
ScanPredefined == {NoVariables, [k \in {<<"x">>} |-> <<"=">>]}

\* variables_engine::create(predefined)
Create(predefined) ==
    /\ pc = "idle"
    /\ variables_' = predefined
    /\ pc' = "done"
    /\ call' = [op |-> "create"]
    /\ UNCHANGED <<commands, completers, shell>>

\* a caller's parse(err, in, out) with fresh err and out is entered
ParseBegin(in) ==
    /\ pc = "idle"
    /\ variables_ \in ScanPredefined
    /\ pc' = "running"
    /\ call' = [op |-> "parsing", in |-> in,
                frames |-> <<new_frame(in, FALSE,
                                       entry(variables_, EmptyString,
                                             EmptyString))>>]
    /\ UNCHANGED <<variables_, commands, completers, shell>>

\* the outermost activation returns to the caller
Returned(r) ==
    /\ variables_' = r.variables_
    /\ pc' = "done"
    /\ call' = [op |-> "parse", in |-> call.in, err |-> r.err, out |-> r.out,
                before |-> variables_]

\* one pass through the loop of the innermost activation
LoopStep ==
    /\ pc = "running"
    /\ LET depth == Len(call.frames)
           top == call.frames[depth]
           b == body(top.in, top.sub_parse, top.s)
       IN  /\ top.s.i # Len(top.in)
           /\ CASE b.kind = "next" ->
                     /\ call' = [call EXCEPT !.frames[depth].s = b.s]
                     /\ UNCHANGED <<variables_, pc>>
                [] b.kind = "call" ->
                     /\ call' = [call EXCEPT
                                   !.frames =
                                      Append([@ EXCEPT ![depth].s = b.s,
                                                       ![depth].key = b.key],
                                             new_frame(b.val_input, TRUE,
                                                       entry(b.s.variables_,
                                                             b.s.err,
                                                             EmptyString)))]
                     /\ UNCHANGED <<variables_, pc>>
                [] b.kind = "return" ->
                     Returned(unwind(SubSeq(call.frames, 1, depth - 1), b.s))
    /\ UNCHANGED <<commands, completers, shell>>

\* the innermost activation has left the loop and returns
LoopEnd ==
    /\ pc = "running"
    /\ LET depth == Len(call.frames)
           top == call.frames[depth]
       IN  /\ top.s.i = Len(top.in)
           /\ Returned(unwind(SubSeq(call.frames, 1, depth - 1),
                               after_loop(top.in, top.s)))
    /\ UNCHANGED <<commands, completers, shell>>

CreateStep == \E predefined \in ScanPredefined : Create(predefined)
ParseBeginStep == \E in \in ScanLines : ParseBegin(in)

NextScan == CreateStep \/ ParseBeginStep \/ LoopStep \/ LoopEnd \/ Return

\* parse runs on without waiting for anything
SpecScan ==
    /\ InitEngine
    /\ [][NextScan]_vars
    /\ WF_vars(LoopStep)
    /\ WF_vars(LoopEnd)

----------------------------------------------------------------------------
(* One command tree driven directly: add, on, absolute_name and execute on   *)
(* the commands below one root.                                              *)

\* the names a root is constructed with (mode::mode passes the mode's name)
RootNames == {EmptyString, <<"m">>}
\* the names handed to add
CommandNames == {EmptyString, <<"f">>, <<"f", "f">>}
\* the characters lines handed to execute are made of
CommandChars == {"f", "b", " "}
CommandLines == StringsUpTo(CommandChars, MaxCmdLen)

\* the descriptions handed to add
CommandDescriptions == {<<"d">>}

\* the handlers handed to on, each named by the result it returns
Handlers == Results

\* the root of the tree
Root == 1

InitTree ==
    /\ variables_ = NoVariables
    /\ \E name \in RootNames :
          commands = <<new_command(nullptr, 1, name, EmptyString)>>
    /\ completers = <<new_completer>>
    /\ mode_objs = << >>
    /\ modes_ = NoModes
    /\ mode_stack_ = << >>
    /\ preprocessors_ = << >>
    /\ last_error_ = EmptyString
    /\ pc = "idle"
    /\ call = NoCall

Add(n, name, desc) ==
    LET r == add(commands, completers, n, name, desc)
    IN  /\ pc = "idle"
        /\ Len(r.commands) <= MaxNodes
        /\ commands' = r.commands
        /\ completers' = r.completers
        /\ pc' = "done"
        /\ call' = [op |-> "add", command |-> n, name |-> name, ptr |-> r.ptr,
                    before |-> commands]
        /\ UNCHANGED <<variables_, shell>>

On(n, f) ==
    /\ pc = "idle"
    /\ commands' = on(commands, n, f)
    /\ pc' = "done"
    /\ call' = [op |-> "on", command |-> n, f |-> f]
    /\ UNCHANGED <<variables_, completers, shell>>

AbsoluteName(n) ==
    /\ pc = "idle"
    /\ pc' = "done"
    /\ call' = [op |-> "absolute_name", command |-> n,
                name |-> absolute_name(commands, n)]
    /\ UNCHANGED <<variables_, commands, completers, shell>>

\* execute(err, line) on the root with a fresh err
Execute(line) ==
    LET r == execute(commands, Root, EmptyString, line)
    IN  /\ pc = "idle"
        /\ pc' = "done"
        /\ call' = [op |-> "execute", line |-> line, result |-> r.result,
                    err |-> r.err, invoked |-> r.invoked, path |-> r.path]
        /\ UNCHANGED <<variables_, commands, completers, shell>>

AddStep ==
    \E n \in 1 .. Len(commands), name \in CommandNames,
       desc \in CommandDescriptions : Add(n, name, desc)
OnStep == \E n \in 1 .. Len(commands), f \in Handlers : On(n, f)
AbsoluteNameStep == \E n \in 1 .. Len(commands) : AbsoluteName(n)
ExecuteStep == \E line \in CommandLines : Execute(line)

NextTree == AddStep \/ OnStep \/ AbsoluteNameStep \/ ExecuteStep \/ Return

SpecTree == InitTree /\ [][NextTree]_vars

----------------------------------------------------------------------------
(* The command line: modes are added, removed, pushed and popped, commands  *)
(* and preprocessors are registered, lines are processed.                   *)

\* the names handed to mode_add, mode_rm and mode_push
ModeNames == {<<"m">>}
\* the names handed to add on the commands of a mode
ModeCommandNames == {<<"f">>}
\* the handlers handed to on for the commands of a mode
ModeHandlers == {"executed", "no_command"}
\* the bindings handed to variables_engine::create
Predefined == {NoVariables}
\* the bindings the engines of the preprocessors stay within
ProcessNames == {<<"x">>}
ProcessValues == {<<"f">>}
Stored(table) ==
    /\ DOMAIN table \subseteq ProcessNames
    /\ \A k \in DOMAIN table : table[k] \in ProcessValues
\* the lines handed to process
ProcessLines ==
    {EmptyString, <<"f">>, <<"f", " ", "$", "x">>, <<"x", "=", "f">>,
     <<"$", "x">>, <<"f", "$">>}

Init ==
    /\ variables_ = NoVariables
    /\ commands = << >>
    /\ completers = << >>
    /\ mode_objs = << >>
    /\ modes_ = NoModes
    /\ mode_stack_ = << >>
    /\ preprocessors_ = << >>
    /\ last_error_ = EmptyString
    /\ pc = "idle"
    /\ call = NoCall

ModeAdd(name) ==
    LET r == mode_add(commands, completers, mode_objs, modes_, name)
    IN  /\ pc = "idle"
        /\ Len(r.commands) <= MaxNodes
        /\ Len(r.mode_objs) <= MaxModes
        /\ commands' = r.commands
        /\ completers' = r.completers
        /\ mode_objs' = r.mode_objs
        /\ modes_' = r.modes_
        /\ pc' = "done"
        /\ call' = [op |-> "mode_add", name |-> name, ptr |-> r.ptr]
        /\ UNCHANGED <<variables_, mode_stack_, preprocessors_, last_error_>>

ModeRm(name) ==
    LET r == mode_rm(modes_, name)
    IN  /\ pc = "idle"
        /\ modes_' = r.modes_
        /\ pc' = "done"
        /\ call' = [op |-> "mode_rm", name |-> name, result |-> r.result]
        /\ UNCHANGED <<variables_, commands, completers, mode_objs,
                       mode_stack_, preprocessors_, last_error_>>

ModePush(name) ==
    LET r == mode_push(modes_, mode_stack_, name)
    IN  /\ pc = "idle"
        /\ Len(r.mode_stack_) <= MaxStack
        /\ mode_stack_' = r.mode_stack_
        /\ pc' = "done"
        /\ call' = [op |-> "mode_push", name |-> name, result |-> r.result]
        /\ UNCHANGED <<variables_, commands, completers, mode_objs, modes_,
                       preprocessors_, last_error_>>

ModePop ==
    LET r == mode_pop(mode_stack_)
    IN  /\ pc = "idle"
        /\ mode_stack_' = r.mode_stack_
        /\ pc' = "done"
        /\ call' = [op |-> "mode_pop", result |-> r.result]
        /\ UNCHANGED <<variables_, commands, completers, mode_objs, modes_,
                       preprocessors_, last_error_>>

\* add_preprocessor(variables_engine<>::create(predef))
AddPreprocessor(predef) ==
    /\ pc = "idle"
    /\ Len(preprocessors_) < MaxPre
    /\ preprocessors_' = Append(preprocessors_, predef)
    /\ pc' = "done"
    /\ call' = [op |-> "add_preprocessor"]
    /\ UNCHANGED <<variables_, commands, completers, mode_objs, modes_,
                   mode_stack_, last_error_>>

Process(cmd) ==
    LET r == process(commands, mode_objs, mode_stack_, preprocessors_,
                     last_error_, cmd)
    IN  /\ pc = "idle"
        /\ \A k \in 1 .. Len(r.preprocessors_) : Stored(r.preprocessors_[k])
        /\ preprocessors_' = r.preprocessors_
        /\ last_error_' = r.last_error_
        /\ pc' = "done"
        /\ call' = [op |-> "process", cmd |-> cmd, result |-> r.result,
                    chain |-> r.chain, dispatched |-> r.dispatched,
                    invoked |-> r.invoked]
        /\ UNCHANGED <<variables_, commands, completers, mode_objs, modes_,
                       mode_stack_>>

ModeAddStep == \E name \in ModeNames : ModeAdd(name)
ModeRmStep == \E name \in ModeNames : ModeRm(name)
ModePushStep == \E name \in ModeNames : ModePush(name)
AddPreprocessorStep == \E predef \in Predefined : AddPreprocessor(predef)
ProcessStep == \E cmd \in ProcessLines : Process(cmd)
ModeCommandStep ==
    \E n \in 1 .. Len(commands), name \in ModeCommandNames,
       desc \in CommandDescriptions : Add(n, name, desc)
ModeOnStep == \E n \in 1 .. Len(commands), f \in ModeHandlers : On(n, f)

Next ==
    \/ ModeAddStep \/ ModeRmStep \/ ModePushStep \/ ModePop
    \/ AddPreprocessorStep \/ ModeCommandStep \/ ModeOnStep \/ ProcessStep \/ Return

Spec == Init /\ [][Next]_vars

----------------------------------------------------------------------------
(* The registry and the stack of a command line with two mode names: modes   *)
(* are added, removed, pushed and popped and are given commands.             *)

\* the names handed to mode_add, mode_rm and mode_push
RegistryNames == {<<"m">>, <<"n">>}

RegistryAddStep == \E name \in RegistryNames : ModeAdd(name)
RegistryRmStep == \E name \in RegistryNames : ModeRm(name)
RegistryPushStep == \E name \in RegistryNames : ModePush(name)

NextModes ==
    \/ RegistryAddStep \/ RegistryRmStep \/ RegistryPushStep \/ ModePop
    \/ ModeCommandStep \/ ModeOnStep \/ Return

SpecModes == Init /\ [][NextModes]_vars

----------------------------------------------------------------------------
(* Reading from the active mode's backend: modes are added, removed, pushed  *)
(* and popped, and characters and lines are read while the input lasts.      *)

\* the characters next in the input when read_char is called
ReadChars == {"f", " ", EndOfInput}
\* the lines typed when read_line is called
TypedLines == {EmptyString, <<"f">>, <<" ", "f", " ">>, <<"f", "\r">>}

\* read_char(c) with c holding a blank before
ReadChar(ch) ==
    LET r == read_char(mode_objs, mode_stack_, " ", ch)
    IN  /\ pc = "idle"
        /\ mode_objs' = r.mode_objs
        /\ pc' = "done"
        /\ call' = [op |-> "read_char", result |-> r.result, c |-> r.c,
                    input |-> ch, backend_calls |-> r.backend_calls]
        /\ UNCHANGED <<variables_, commands, completers, modes_, mode_stack_,
                       preprocessors_, last_error_>>

\* read_line(line) with line empty before
ReadLine(typed, ended) ==
    LET r == read_line(mode_objs, mode_stack_, EmptyString, typed, ended)
    IN  /\ pc = "idle"
        /\ mode_objs' = r.mode_objs
        /\ pc' = "done"
        /\ call' = [op |-> "read_line", result |-> r.result, line |-> r.line,
                    typed |-> typed, ended |-> ended,
                    backend_calls |-> r.backend_calls]
        /\ UNCHANGED <<variables_, commands, completers, modes_, mode_stack_,
                       preprocessors_, last_error_>>

ReadCharStep == \E ch \in ReadChars : ReadChar(ch)
ReadLineStep == \E typed \in TypedLines, ended \in BOOLEAN : ReadLine(typed, ended)

NextReader ==
    \/ RegistryAddStep \/ RegistryRmStep \/ RegistryPushStep \/ ModePop
    \/ ReadCharStep \/ ReadLineStep \/ Return

SpecReader == Init /\ [][NextReader]_vars

----------------------------------------------------------------------------
(* The completer of each mode: commands are added to the modes' trees,       *)
(* completions are added, removed and replaced, a callback is set and        *)
(* prefixes are completed.                                                   *)

\* the strings handed to add_completion and remove_completion
CompletionStrings == {<<"f">>, <<"m", " ", "f", " ">>}
\* the vectors handed to replace_completions
CompletionVectors == {<<<<"f">>, <<"f">>>>, <<<<"b">>>>}
\* the callbacks handed to on_complete, each named by the string it returns
CompletionCallbacks == {<<"f", " ">>}
\* the lines up to the cursor when the completion key is pressed
Prefixes == {EmptyString, <<"f">>, <<"m">>}

\* mode::add_completion
AddCompletion(m, str) ==
    LET c == mode_objs[m].backend_.completer_
        r == add_completion(completers[c], str)
    IN  /\ pc = "idle"
        /\ completers' = [completers EXCEPT ![c] = r.completer]
        /\ pc' = "done"
        /\ call' = [op |-> "add_completion", mode |-> m, str |-> str,
                    result |-> r.result]
        /\ UNCHANGED <<variables_, commands, shell>>

\* backend().get_completer()->remove_completion(str)
RemoveCompletion(m, str) ==
    LET c == mode_objs[m].backend_.completer_
        r == remove_completion(completers[c], str)
    IN  /\ pc = "idle"
        /\ completers' = [completers EXCEPT ![c] = r.completer]
        /\ pc' = "done"
        /\ call' = [op |-> "remove_completion", mode |-> m, str |-> str,
                    result |-> r.result]
        /\ UNCHANGED <<variables_, commands, shell>>

\* mode::replace_completions
ReplaceCompletions(m, completions) ==
    LET c == mode_objs[m].backend_.completer_
    IN  /\ pc = "idle"
        /\ completers' = [completers EXCEPT
                             ![c] = replace_completions(@, completions)]
        /\ pc' = "done"
        /\ call' = [op |-> "replace_completions", mode |-> m,
                    completions |-> completions]
        /\ UNCHANGED <<variables_, commands, shell>>

\* mode::on_complete
OnComplete(m, f) ==
    LET c == mode_objs[m].backend_.completer_
    IN  /\ pc = "idle"
        /\ completers' = [completers EXCEPT ![c] = on_completion(@, f)]
        /\ pc' = "done"
        /\ call' = [op |-> "on_complete", mode |-> m, f |-> f]
        /\ UNCHANGED <<variables_, commands, shell>>

\* the completion key in mode m: complete(completed_line, line) with an
\* empty completed_line
Complete(m, prefix) ==
    LET c == mode_objs[m].backend_.completer_
        r == complete(completers[c], EmptyString, prefix)
    IN  /\ pc = "idle"
        /\ pc' = "done"
        /\ call' = [op |-> "complete", mode |-> m, prefix |-> prefix,
                    code |-> r.code, result |-> r.result,
                    invoked |-> r.invoked]
        /\ UNCHANGED <<variables_, commands, completers, shell>>

AddCompletionStep ==
    \E m \in 1 .. Len(mode_objs), str \in CompletionStrings :
        AddCompletion(m, str)
RemoveCompletionStep ==
    \E m \in 1 .. Len(mode_objs), str \in CompletionStrings :
        RemoveCompletion(m, str)
ReplaceCompletionsStep ==
    \E m \in 1 .. Len(mode_objs), completions \in CompletionVectors :
        ReplaceCompletions(m, completions)
OnCompleteStep ==
    \E m \in 1 .. Len(mode_objs), f \in CompletionCallbacks : OnComplete(m, f)
CompleteStep ==
    \E m \in 1 .. Len(mode_objs), prefix \in Prefixes : Complete(m, prefix)

NextCompleter ==
    \/ RegistryAddStep \/ ModeCommandStep
    \/ AddCompletionStep \/ RemoveCompletionStep \/ ReplaceCompletionsStep
    \/ OnCompleteStep \/ CompleteStep \/ Return

SpecCompleter == Init /\ [][NextCompleter]_vars

----------------------------------------------------------------------------
(* The commands of a mode: commands with handlers are added one by one and   *)
(* as lists of clauses, and are given sub-commands.                          *)

\* the names, descriptions and handlers handed to mode::add
ClauseNames == {EmptyString, <<"f">>, <<"b">>}
ClauseDescriptions == {<<"d">>, <<"e">>}
\* the lists handed to add_all
Clauses ==
    {<<[cmd_name |-> <<"f">>, cmd_desc |-> <<"d">>, cmd_fun |-> "executed"],
       [cmd_name |-> <<"f">>, cmd_desc |-> <<"e">>, cmd_fun |-> "no_command"]>>,
     <<[cmd_name |-> <<"b">>, cmd_desc |-> <<"e">>, cmd_fun |-> "no_command"],
       [cmd_name |-> <<"f">>, cmd_desc |-> <<"d">>, cmd_fun |-> "executed"]>>}

\* mode::add(name, desc, func) on mode m
AddHandled(m, name, desc, func) ==
    LET r == add_handled(commands, completers, mode_objs, m, name, desc, func)
    IN  /\ pc = "idle"
        /\ Len(r.commands) <= MaxNodes
        /\ commands' = r.commands
        /\ completers' = r.completers
        /\ pc' = "done"
        /\ call' = [op |-> "add_handled", mode |-> m, name |-> name,
                    desc |-> desc, func |-> func, ptr |-> r.ptr]
        /\ UNCHANGED <<variables_, shell>>

\* mode::add_all(clauses) on mode m
AddAll(m, clauses) ==
    LET r == add_all(commands, completers, mode_objs, m, clauses)
    IN  /\ pc = "idle"
        /\ Len(r.commands) <= MaxNodes
        /\ commands' = r.commands
        /\ completers' = r.completers
        /\ pc' = "done"
        /\ call' = [op |-> "add_all", mode |-> m, clauses |-> clauses]
        /\ UNCHANGED <<variables_, shell>>

AddHandledStep ==
    \E m \in 1 .. Len(mode_objs), name \in ClauseNames,
       desc \in ClauseDescriptions, func \in ModeHandlers :
        AddHandled(m, name, desc, func)
AddAllStep ==
    \E m \in 1 .. Len(mode_objs), clauses \in Clauses : AddAll(m, clauses)

NextClauses ==
    \/ ModeAddStep \/ AddHandledStep \/ AddAllStep \/ ModeCommandStep
    \/ ModeOnStep \/ Return

SpecClauses == Init /\ [][NextClauses]_vars

----------------------------------------------------------------------------
(* Properties of the variables engine, checked under SpecEngine. *)

ParseReturned == pc = "done" /\ call.op = "parse"

\* "$name" and "${name}"
Bare(name) == <<"$">> \o name
Braced(name) == <<"$", "{">> \o name \o <<"}">>

IsName(s) == s # EmptyString /\ \A k \in 1 .. Len(s) : valid_varname_char(s[k])

\* the index of the first '=' of a line, 0 if it has none
FirstEquals(line) ==
    LET eqs == {k \in 1 .. Len(line) : line[k] = "="}
    IN  IF eqs = {} THEN 0 ELSE CHOOSE k \in eqs : \A j \in eqs : k <= j

\* a line "x=rhs" with a valid name x in front of its first '='
IsAssignment(line) ==
    FirstEquals(line) > 1 /\ IsName(SubSeq(line, 1, FirstEquals(line) - 1))

Lhs(line) == SubSeq(line, 1, FirstEquals(line) - 1)
Rhs(line) == SubSeq(line, FirstEquals(line) + 1, Len(line))

\* C1: for every valid name x and every right-hand side that parses without
\* error to a value v, whatever was bound before, parse of "x=rhs" leaves err
\* and out empty and x bound to v, so that a following parse of "$x" yields v.
C1_AssignmentBinds ==
    (ParseReturned /\ IsAssignment(call.in)) =>
        LET value == parse(call.before, EmptyString, Rhs(call.in), EmptyString, TRUE)
            following == parse(variables_, EmptyString, Bare(Lhs(call.in)),
                               EmptyString, FALSE)
        IN  value.err = EmptyString =>
                /\ call.err = EmptyString
                /\ call.out = EmptyString
                /\ following.err = EmptyString
                /\ following.out = value.out

\* C6: whenever parse reports a syntax error, out is empty on return, for
\* every kind of error.
C6_ErrorClearsOut ==
    (ParseReturned /\ call.err # EmptyString) => call.out = EmptyString

\* the texts that follow the position in an error
ErrorDetails ==
    {<<"$ at end of line">>, <<"$$ is not a valid expression">>,
     <<"missing '}' at end of line">>}
    \cup {<<"unexpected character '", c, "' after $">> : c \in LineChars}
    \cup {<<"'", c, "' is an invalid character inside ${...}">> : c \in LineChars}

Positioned(n, detail) ==
    <<"syntax error at position ">> \o to_string(n) \o <<": ">> \o detail

\* offset n of `line` is where an error with this detail is detected: the
\* end of the line, or the character the detail is about
DetectedAt(line, n, detail) ==
    IF detail \in {<<"$ at end of line">>, <<"missing '}' at end of line">>}
    THEN n = Len(line)
    ELSE IF detail = <<"$$ is not a valid expression">>
    THEN n < Len(line) /\ line[n + 1] = "$"
    ELSE n = Len(line) \/ line[n + 1] = detail[2]

\* C7: every syntax error reported by parse reads "syntax error at position
\* N: <detail>" with N the offset, within the line passed to parse, of the
\* character at which the error was detected (the line length at end of
\* input), also for a missing '}' and inside the right-hand side of an
\* assignment.
C7_ErrorPosition ==
    (ParseReturned /\ call.err # EmptyString) =>
        \E n \in 0 .. Len(call.in), detail \in ErrorDetails :
            /\ call.err = Positioned(n, detail)
            /\ DetectedAt(call.in, n, detail)

\* C8: a parse call that ends with a syntax error leaves the binding table
\* exactly as it was before the call; an assignment whose right-hand side
\* fails to parse neither creates nor changes the binding of its left-hand
\* side.
C8_ErrorKeepsBindings ==
    (ParseReturned /\ call.err # EmptyString) => variables_ = call.before

\* an assignment to an unbound name has failed in its right-hand side
C8_Witness ==
    /\ ParseReturned
    /\ call.err # EmptyString
    /\ IsAssignment(call.in)
    /\ Lhs(call.in) \notin DOMAIN call.before
    /\ Lhs(call.in) \in SetNames

\* what a parse of `line` with fresh err and out leaves on this table
Expands(table, line, value) ==
    LET r == parse(table, EmptyString, line, EmptyString, FALSE)
    IN  r.err = EmptyString /\ r.out = value

\* C9: set(n, v) followed by parse of "$n" or "${n}" with an empty out yields
\* out = v and an empty err; set overwrites an earlier binding of n; after
\* unset(n) the same parses yield the empty string.
C9_SetThenParse ==
    /\ (pc = "done" /\ call.op = "set") =>
          /\ Expands(variables_, Bare(call.identifier), call.value)
          /\ Expands(variables_, Braced(call.identifier), call.value)
    /\ (pc = "done" /\ call.op = "unset") =>
          /\ Expands(variables_, Bare(call.identifier), EmptyString)
          /\ Expands(variables_, Braced(call.identifier), EmptyString)
    /\ \A n \in SetNames :
          (ParseReturned /\ call.in \in {Bare(n), Braced(n)}) =>
              /\ call.err = EmptyString
              /\ call.out = (IF n \in DOMAIN call.before THEN call.before[n]
                             ELSE EmptyString)

\* set has replaced a different value
C9_Witness ==
    /\ pc = "done"
    /\ call.op = "set"
    /\ call.identifier \in DOMAIN call.before
    /\ call.before[call.identifier] # call.value
    /\ call.value # EmptyString

NoDollar(s) == \A k \in 1 .. Len(s) : s[k] # "$"
NoDollarOrEquals(s) == \A k \in 1 .. Len(s) : s[k] \notin {"$", "="}

\* `ref` is a reference, in either form, to a name without binding; a bare
\* name ends where the text after it begins
UnboundReference(table, ref, after) ==
    \/ /\ Len(ref) >= 2
       /\ ref[1] = "$"
       /\ IsName(Tail(ref))
       /\ Tail(ref) \notin DOMAIN table
       /\ after = EmptyString \/ ~valid_varname_char(after[1])
    \/ /\ Len(ref) >= 4
       /\ ref = Braced(SubSeq(ref, 3, Len(ref) - 1))
       /\ IsName(SubSeq(ref, 3, Len(ref) - 1))
       /\ SubSeq(ref, 3, Len(ref) - 1) \notin DOMAIN table

\* C10: a reference to a name that has no binding, as $name or ${name}, is
\* replaced by the empty string and is no error: err stays empty and the
\* text around the reference is copied unchanged.
C10_UnboundIsEmpty ==
    ParseReturned =>
        \A a \in 0 .. Len(call.in) : \A b \in a .. Len(call.in) :
            LET before == Range(call.in, 0, a)
                ref == Range(call.in, a, b)
                after == Range(call.in, b, Len(call.in))
            IN  (/\ NoDollarOrEquals(before)
                 /\ NoDollar(after)
                 /\ UnboundReference(call.before, ref, after))
                => /\ call.err = EmptyString
                   /\ call.out = before \o after

\* a character a name is made of
NameChar(c) == c \in AlnumChars \cup {"_"}

\* the offsets that follow a '$' of `line` at which neither '{' nor a name
\* character stands
BadDollars(line) ==
    {k \in 1 .. Len(line) :
        /\ line[k] = "$"
        /\ k = Len(line) \/ ~(NameChar(line[k + 1]) \/ line[k + 1] = "{")}

\* the detail reported for what stands at offset k, after a '$'
AfterDollarDetail(line, k) ==
    IF k = Len(line) THEN <<"$ at end of line">>
    ELSE IF line[k + 1] = "$" THEN <<"$$ is not a valid expression">>
    ELSE <<"unexpected character '", line[k + 1], "' after $">>

AfterDollarErrors(line) ==
    {Positioned(k, AfterDollarDetail(line, k)) : k \in 0 .. Len(line)}

\* C11: after a '$' parse accepts only '{' or a name character; any other
\* character, another '$' or the end of input makes parse return with a
\* non-empty err and nothing substituted for that '$' (out is empty where the
\* '$' follows plain text, and no binding changes); and parse reports no
\* such error when every '$' is followed by '{' or a name character.
C11_AfterDollar ==
    ParseReturned =>
        /\ BadDollars(call.in) # {} =>
              /\ call.err # EmptyString
              /\ variables_ = call.before
        /\ \A k \in BadDollars(call.in) :
              NoDollarOrEquals(Range(call.in, 0, k - 1)) => call.out = EmptyString
        /\ BadDollars(call.in) = {} => call.err \notin AfterDollarErrors(call.in)

\* the texts that say the closing brace is missing
MissingBraceTexts ==
    {MissingBrace}
    \cup {Positioned(n, <<"missing '}' at end of line">>) : n \in 0 .. MaxLen + 1}

\* C12: for every line that ends inside an unterminated braced reference,
\* "${" followed by zero or more name characters and the end of the line,
\* parse returns with a non-empty err that says the closing '}' is missing.
C12_MissingBrace ==
    ParseReturned =>
        \A a \in 0 .. Len(call.in) - 2 :
            (/\ NoDollarOrEquals(Range(call.in, 0, a))
             /\ call.in[a + 1] = "$"
             /\ call.in[a + 2] = "{"
             /\ \A k \in a + 3 .. Len(call.in) : NameChar(call.in[k]))
            => call.err \in MissingBraceTexts

HasEquals(line) == \E k \in 1 .. Len(line) : line[k] = "="

\* the first '=' of the line follows one or more name characters that begin
\* the line
BeginsWithName(line) ==
    /\ FirstEquals(line) > 1
    /\ \A k \in 1 .. FirstEquals(line) - 1 : NameChar(line[k])

ValueOf(table, name) == IF name \in DOMAIN table THEN table[name] ELSE EmptyString

\* the call binds, rebinds or unbinds this name
Targets(c, name) ==
    \/ c.op \in {"set", "unset"} /\ c.identifier = name
    \/ c.op = "parse" /\ IsAssignment(c.in) /\ Lhs(c.in) = name

EscapedDollars(line) ==
    {k \in 2 .. Len(line) : line[k] = "$" /\ line[k - 1] = "\\"}

\* C28: a '$' that follows a backslash is never the start of a substitution
\* and never causes a syntax error: it is copied to the output literally, and
\* a name after it is copied as plain text, not looked up.  A line whose '$'
\* are all escaped is copied whole; in general what parse makes of the line
\* up to the backslash is followed by the '$' and the plain text after it.
C28_EscapedDollar ==
    (ParseReturned /\ ~HasEquals(call.in)) =>
        /\ (\A k \in 1 .. Len(call.in) :
               call.in[k] = "$" => k \in EscapedDollars(call.in)) =>
              /\ call.err = EmptyString
              /\ call.out = call.in
              /\ variables_ = call.before
        /\ \A k \in EscapedDollars(call.in) :
              NoDollar(Range(call.in, k, Len(call.in))) =>
                  IF parse(call.before, EmptyString, Range(call.in, 0, k - 1),
                           EmptyString, FALSE).err = EmptyString
                  THEN /\ call.err = EmptyString
                       /\ call.out
                            = parse(call.before, EmptyString,
                                    Range(call.in, 0, k - 1), EmptyString,
                                    FALSE).out
                              \o Range(call.in, k - 1, Len(call.in))
                  ELSE call.err
                         = parse(call.before, EmptyString,
                                 Range(call.in, 0, k - 1), EmptyString, FALSE).err

\* an escaped '$' in front of a bound name was copied with the name
C28_Witness ==
    /\ ParseReturned
    /\ Len(call.in) = 3
    /\ EscapedDollars(call.in) = {2}
    /\ <<call.in[3]>> \in DOMAIN call.before
    /\ call.before[<<call.in[3]>>] # EmptyString
    /\ call.out = call.in

\* C30: in the bare form the name after '$' is the maximal run of name
\* characters: whatever character first follows that is not a name character
\* ends the name, is not consumed, and is processed as ordinary input after
\* the value of the name.
C30_BareNameEnds ==
    ParseReturned =>
        \A a \in 0 .. Len(call.in) : \A b \in a .. Len(call.in) :
            LET pre == Range(call.in, 0, a)
                ref == Range(call.in, a, b)
                post == Range(call.in, b, Len(call.in))
            IN  (/\ NoDollarOrEquals(pre)
                 /\ pre = EmptyString \/ pre[Len(pre)] # "\\"
                 /\ Len(ref) >= 2
                 /\ ref[1] = "$"
                 /\ \A k \in 2 .. Len(ref) : NameChar(ref[k])
                 /\ post = EmptyString \/ ~NameChar(post[1])
                 /\ NoDollar(post))
                => /\ call.err = EmptyString
                   /\ call.out = pre \o ValueOf(call.before, Tail(ref)) \o post

\* the offset of the first character of `line` after offset `from` that is
\* not a name character, 0 when there is none
FirstNonName(line, from) ==
    LET ends == {k \in from + 1 .. Len(line) : ~NameChar(line[k])}
    IN  IF ends = {} THEN 0 ELSE CHOOSE k \in ends : \A j \in ends : k <= j

\* C31: in a braced reference every character between "${" and the closing
\* '}' must be alphanumeric or underscore: any other character there makes
\* parse return with a syntax error; when the name is valid the closing '}'
\* is consumed and the value of the name stands in its place.
C31_BracedName ==
    ParseReturned =>
        \A a \in 1 .. Len(call.in) - 1 :
            LET pre == SubSeq(call.in, 1, a - 1)
                k == FirstNonName(call.in, a + 1)
            IN  (/\ call.in[a] = "$"
                 /\ call.in[a + 1] = "{"
                 /\ NoDollarOrEquals(pre)
                 /\ pre = EmptyString \/ pre[Len(pre)] # "\\"
                 /\ k # 0)
                => IF call.in[k] = "}"
                   THEN (k > a + 2 /\ NoDollar(SubSeq(call.in, k + 1, Len(call.in))))
                        => /\ call.err = EmptyString
                           /\ call.out
                                = pre
                                  \o ValueOf(call.before,
                                             SubSeq(call.in, a + 2, k - 1))
                                  \o SubSeq(call.in, k + 1, Len(call.in))
                   ELSE /\ call.err # EmptyString
                        /\ variables_ = call.before

----------------------------------------------------------------------------
(* Properties of the command tree, checked under SpecTree. *)

FirstSpace(line) ==
    LET spaces == {k \in 1 .. Len(line) : line[k] = " "}
    IN  IF spaces = {} THEN 0 ELSE CHOOSE k \in spaces : \A j \in spaces : k <= j

\* the space-separated tokens of a line
RECURSIVE Tokens(_)
Tokens(line) ==
    IF FirstSpace(line) = 0 THEN <<line>>
    ELSE <<SubSeq(line, 1, FirstSpace(line) - 1)>>
           \o Tokens(SubSeq(line, FirstSpace(line) + 1, Len(line)))

\* the text after the k-th space of a line, empty if it has fewer
RECURSIVE After(_, _)
After(line, k) ==
    IF k = 0 THEN line
    ELSE IF FirstSpace(line) = 0 THEN EmptyString
    ELSE After(SubSeq(line, FirstSpace(line) + 1, Len(line)), k - 1)

\* the child of n with this name, nullptr if there is none
Child(cmds, n, name) ==
    LET named == {c \in {cmds[n].children_[k] : k \in 1 .. Len(cmds[n].children_)} :
                     cmds[c].name_ = name}
    IN  IF named = {} THEN nullptr ELSE CHOOSE c \in named : TRUE

\* the command the first k tokens name from n down, nullptr if they name none
RECURSIVE Walk(_, _, _, _)
Walk(cmds, n, tokens, k) ==
    IF k = 0 THEN n
    ELSE LET above == Walk(cmds, n, tokens, k - 1)
         IN  IF above = nullptr THEN nullptr ELSE Child(cmds, above, tokens[k])

\* the names from below the root down to n, joined by single spaces
RECURSIVE PathName(_, _)
PathName(cmds, n) ==
    IF is_root(cmds, n) THEN EmptyString
    ELSE IF is_root(cmds, cmds[n].parent_) THEN cmds[n].name_
    ELSE PathName(cmds, cmds[n].parent_) \o <<" ">> \o cmds[n].name_

\* C3: absolute_name of a command is the names on the path from the root
\* down to it, parent first, joined by single spaces, the root's own name
\* excluded, whatever name the root carries; the root's is the empty string.
C3_AbsoluteName ==
    (pc = "done" /\ call.op = "absolute_name") =>
        call.name = PathName(commands, call.command)

\* C4: when the first k tokens of a line name nested children c1..ck below
\* the root, ck has a handler and no child of ck is named by the next token,
\* execute on the root invokes exactly ck's handler, once, with the text
\* after the space that follows the k-th token (empty if the line ends there).
C4_DeepestHandler ==
    (pc = "done" /\ call.op = "execute") =>
        \A k \in 1 .. Len(Tokens(call.line)) :
            LET ck == Walk(commands, Root, Tokens(call.line), k)
            IN  (/\ ck # nullptr
                 /\ commands[ck].handler_ # NoHandler
                 /\ \/ k = Len(Tokens(call.line))
                    \/ Child(commands, ck, Tokens(call.line)[k + 1]) = nullptr)
                => call.invoked = <<[command |-> ck, input |-> After(call.line, k)]>>

\* a handler two levels below the root has been given a non-empty rest
C4_Witness ==
    /\ pc = "done"
    /\ call.op = "execute"
    /\ Len(call.invoked) = 1
    /\ call.invoked[1].input # EmptyString
    /\ commands[call.invoked[1].command].parent_ \notin {nullptr, Root}
    /\ call.invoked[1].command
         = Walk(commands, Root, Tokens(call.line), 2)

\* where the descent of `line` from `root` ends: the command reached and the
\* token no child of it is named by
Unmatched(cmds, root, line) ==
    LET tokens == Tokens(line)
        named == {k \in 0 .. Len(tokens) : Walk(cmds, root, tokens, k) # nullptr}
        last == CHOOSE k \in named : \A j \in named : j <= k
    IN  [command |-> Walk(cmds, root, tokens, last),
         token |-> IF last < Len(tokens) THEN tokens[last + 1] ELSE EmptyString]

\* the names of the children of a command, in order
ChildNames(cmds, n) ==
    [k \in 1 .. Len(cmds[n].children_) |-> cmds[cmds[n].children_[k]].name_]

\* C18: after any sequence of add calls on any commands of a tree, no two
\* children of a command have the same name and no command other than the
\* root has an empty name; add returns no command and leaves the child list
\* unchanged exactly when the name is empty or is the name of an existing
\* child, and otherwise appends exactly one new child after the existing
\* ones.
C18_AddKeepsNamesUnique ==
    /\ \A n \in 1 .. Len(commands) :
          /\ \A j, k \in 1 .. Len(commands[n].children_) :
                ChildNames(commands, n)[j] = ChildNames(commands, n)[k] => j = k
          /\ commands[n].parent_ # nullptr => commands[n].name_ # EmptyString
    /\ (pc = "done" /\ call.op = "add") =>
          IF \/ call.name = EmptyString
             \/ \E k \in 1 .. Len(call.before[call.command].children_) :
                   ChildNames(call.before, call.command)[k] = call.name
          THEN /\ call.ptr = nullptr
               /\ commands = call.before
          ELSE /\ call.ptr = Len(call.before) + 1
               /\ Len(commands) = Len(call.before) + 1
               /\ commands[call.ptr].parent_ = call.command
               /\ commands[call.ptr].name_ = call.name
               /\ commands[call.ptr].children_ = << >>
               /\ commands[call.command].children_
                    = Append(call.before[call.command].children_, call.ptr)
               /\ \A n \in 1 .. Len(call.before) :
                     n # call.command => commands[n] = call.before[n]

\* add has refused a non-empty name that the second child of the command
\* carries
C18_Witness ==
    /\ pc = "done"
    /\ call.op = "add"
    /\ call.ptr = nullptr
    /\ Len(commands[call.command].children_) = 2
    /\ ChildNames(commands, call.command)[2] = call.name

\* C19: execute descends into a child only when the child's name equals the
\* candidate token, the remaining input up to its first space, character for
\* character and in length: a child whose name is a proper prefix of the
\* token, or of which the token is a proper prefix, is never selected, and no
\* child is selected for the empty token.
C19_ExactToken ==
    (pc = "done" /\ call.op = "execute") =>
        /\ Len(call.path) <= Len(Tokens(call.line))
        /\ \A j \in 1 .. Len(call.path) :
              /\ commands[call.path[j]].name_ = Tokens(call.line)[j]
              /\ Tokens(call.line)[j] # EmptyString
              /\ commands[call.path[j]].parent_
                   = (IF j = 1 THEN Root ELSE call.path[j - 1])
        /\ call.line # EmptyString =>
              Unmatched(commands, Root, call.line).command
                = (IF call.path = << >> THEN Root ELSE call.path[Len(call.path)])

\* the token "ff" has selected the child of that name although the child
\* "f" comes first
C19_Witness ==
    /\ pc = "done"
    /\ call.op = "execute"
    /\ call.path # << >>
    /\ commands[call.path[1]].name_ = <<"f", "f">>
    /\ Len(commands[Root].children_) = 2
    /\ ChildNames(commands, Root)[1] = <<"f">>

\* what process returns for `line` on a command line whose only mode, on
\* the stack, has this tree, with these preprocessors
ProcessedAlone(cmds, pre, line) ==
    process(cmds, <<new_mode(1, Root)>>, <<1>>, pre, EmptyString, line).result

\* C20: the handler of a command is invoked only when no child's name equals
\* the first token of the remaining input; it then receives the whole
\* remaining input including that unmatched token, and the result code it
\* returns (executed, nop or no_command) is returned unchanged by execute
\* and by process.
C20_HandlerResult ==
    (pc = "done" /\ call.op = "execute" /\ call.invoked # << >>) =>
        /\ Len(call.invoked) = 1
        /\ Child(commands, call.invoked[1].command,
                 Tokens(call.invoked[1].input)[1]) = nullptr
        /\ call.invoked[1].command = Unmatched(commands, Root, call.line).command
        /\ Tokens(call.invoked[1].input)[1]
             = Unmatched(commands, Root, call.line).token
        /\ call.invoked[1].input = After(call.line, Len(call.path))
        /\ call.result = commands[call.invoked[1].command].handler_
        /\ ProcessedAlone(commands, << >>, call.line) = call.result
        /\ ProcessedAlone(commands, <<NoVariables>>, call.line) = call.result

\* the handler of a command below the root that has a child was given a
\* token its child is not named by, and its result was not executed
C20_Witness ==
    /\ pc = "done"
    /\ call.op = "execute"
    /\ Len(call.invoked) = 1
    /\ call.invoked[1].command # Root
    /\ commands[call.invoked[1].command].children_ # << >>
    /\ call.invoked[1].input # EmptyString
    /\ call.result \in {"nop", "no_command"}

----------------------------------------------------------------------------
(* Properties of the command line, checked under Spec. *)

ActiveRoot == mode_objs[back(mode_stack_)].root_

\* what preprocessor i of the last process call makes of its input alone
Produced(i) ==
    parse(preprocessors_[i], EmptyString, call.chain[i].in, EmptyString, FALSE).out

\* C2: when k >= 1 preprocessors are registered and each succeeds with a
\* non-empty output, process runs them in registration order, each receives
\* what the one before produced (the first the line), and the text dispatched
\* to the active mode is exactly what the last one produced from its own
\* input, with nothing left over from an earlier buffer.
C2_ChainFeedsForward ==
    (/\ pc = "done"
     /\ call.op = "process"
     /\ call.chain # << >>
     /\ \A i \in 1 .. Len(call.chain) :
           call.chain[i].err = EmptyString /\ call.chain[i].out # EmptyString)
    => /\ Len(call.chain) = Len(preprocessors_)
       /\ call.chain[1].in = call.cmd
       /\ \A i \in 1 .. Len(call.chain) - 1 : call.chain[i + 1].in = Produced(i)
       /\ call.dispatched = <<Produced(Len(call.chain))>>

\* C5: when execute reaches a command at which no child is named by the next
\* token and which has no handler (the root with empty input aside, which is
\* a nop), it returns no_command, the error text is "<token>: command not
\* found" for that token, no handler is invoked, and the command trees, the
\* mode registry, the mode stack and the variable bindings stay as they were.
C5_CommandNotFound ==
    [][(/\ pc' = "done"
        /\ call'.op = "process"
        /\ call'.dispatched # << >>
        /\ call'.dispatched[1] # EmptyString
        /\ commands[Unmatched(commands, ActiveRoot, call'.dispatched[1]).command]
             .handler_ = NoHandler)
       => /\ call'.result = "no_command"
          /\ last_error_'
               = Unmatched(commands, ActiveRoot, call'.dispatched[1]).token
                   \o <<": command not found">>
          /\ call'.invoked = << >>
          /\ UNCHANGED <<commands, mode_objs, modes_, mode_stack_,
                         preprocessors_, variables_>>]_vars

\* a line that went through a preprocessor has named no child of a command
\* below the root
C5_Witness ==
    /\ pc = "done"
    /\ call.op = "process"
    /\ call.chain # << >>
    /\ call.dispatched # << >>
    /\ call.result = "no_command"
    /\ Unmatched(commands, ActiveRoot, call.dispatched[1]).command # ActiveRoot
    /\ Unmatched(commands, ActiveRoot, call.dispatched[1]).token # EmptyString

ProcessReturned == pc = "done" /\ call.op = "process"

\* the commands of the active mode that have a handler
ActiveHandlers ==
    {n \in 1 .. Len(commands) :
        /\ commands[n].handler_ # NoHandler
        /\ commands[n].parent_ = ActiveRoot}

\* C13: if a preprocessor in the chain leaves a non-empty error, process
\* stops at once: it returns no_command, last_error() is that preprocessor's
\* message, no later preprocessor is invoked and the active mode's command
\* tree is not executed.
C13_PreprocessorError ==
    ProcessReturned =>
        \A i \in 1 .. Len(call.chain) :
            call.chain[i].err # EmptyString =>
                /\ i = Len(call.chain)
                /\ call.result = "no_command"
                /\ last_error_ = call.chain[i].err
                /\ call.dispatched = << >>
                /\ call.invoked = << >>

\* the first of two preprocessors has failed on a line whose first token
\* names a command with a handler
C13_Witness ==
    /\ ProcessReturned
    /\ Len(preprocessors_) = 2
    /\ Len(call.chain) = 1
    /\ call.chain[1].err # EmptyString
    /\ \E n \in ActiveHandlers : commands[n].name_ = <<call.cmd[1]>>

\* C14: if a preprocessor succeeds and leaves its output empty, process
\* returns executed at once: no later preprocessor is invoked and no command
\* is executed; an assignment line handled by the variable engine never
\* reaches the command tree.
C14_EmptyOutput ==
    ProcessReturned =>
        /\ \A i \in 1 .. Len(call.chain) :
              (call.chain[i].err = EmptyString /\ call.chain[i].out = EmptyString) =>
                  /\ i = Len(call.chain)
                  /\ call.result = "executed"
                  /\ call.dispatched = << >>
                  /\ call.invoked = << >>
        /\ (call.chain # << >> /\ IsAssignment(call.cmd)) =>
              /\ call.dispatched = << >>
              /\ call.invoked = << >>

\* the first of two engines has taken an assignment line and bound its name
C14_Witness ==
    /\ ProcessReturned
    /\ Len(preprocessors_) = 2
    /\ Len(call.chain) = 1
    /\ IsAssignment(call.cmd)
    /\ call.result = "executed"
    /\ Lhs(call.cmd) \in DOMAIN preprocessors_[1]
    /\ ActiveHandlers # {}

\* C15: process("") returns nop in every state, mode stack empty or not,
\* preprocessors registered or not, and changes nothing: no preprocessor and
\* no handler is invoked, and last_error(), bindings, registry and stack stay
\* as they were.  Likewise execute on the root of a mode with empty input
\* returns nop without invoking the root's handler, even if one is set.
C15_EmptyLineIsNop ==
    [][(pc' = "done" /\ call'.op = "process" /\ call'.cmd = EmptyString)
       => /\ call'.result = "nop"
          /\ call'.chain = << >>
          /\ call'.dispatched = << >>
          /\ call'.invoked = << >>
          /\ UNCHANGED <<last_error_, preprocessors_, variables_, modes_,
                         mode_stack_, commands, mode_objs>>
          /\ \A m \in 1 .. Len(mode_objs) :
                /\ execute(commands, mode_objs[m].root_, last_error_,
                           EmptyString).result = "nop"
                /\ execute(commands, mode_objs[m].root_, last_error_,
                           EmptyString).invoked = << >>
                /\ execute(commands, mode_objs[m].root_, last_error_,
                           EmptyString).err = last_error_]_vars

\* the empty line has been processed with a mode on the stack whose root
\* has a handler, a preprocessor holding a binding and an error left from
\* an earlier line
C15_Witness ==
    /\ ProcessReturned
    /\ call.cmd = EmptyString
    /\ mode_stack_ # << >>
    /\ commands[ActiveRoot].handler_ # NoHandler
    /\ preprocessors_ # << >>
    /\ DOMAIN preprocessors_[1] # {}
    /\ last_error_ # EmptyString

\* C16: process of a non-empty line with an empty mode stack returns
\* no_command and sets last_error() to a non-empty message, without invoking
\* any preprocessor or handler; an assignment line processed while the stack
\* is empty creates no binding.
C16_EmptyStack ==
    [][(/\ pc' = "done"
        /\ call'.op = "process"
        /\ call'.cmd # EmptyString
        /\ mode_stack_ = << >>)
       => /\ call'.result = "no_command"
          /\ last_error_' # EmptyString
          /\ call'.chain = << >>
          /\ call'.dispatched = << >>
          /\ call'.invoked = << >>
          /\ UNCHANGED <<preprocessors_, variables_, modes_, mode_stack_,
                         commands, mode_objs>>]_vars

\* an assignment line has been processed with an empty stack while an engine
\* was registered and a mode with a command was in the registry
C16_Witness ==
    /\ ProcessReturned
    /\ IsAssignment(call.cmd)
    /\ mode_stack_ = << >>
    /\ preprocessors_ # << >>
    /\ DOMAIN modes_ # {}
    /\ \E n \in 1 .. Len(commands) : commands[n].handler_ # NoHandler

\* the root of the tree a command belongs to
RECURSIVE RootOf(_, _)
RootOf(cmds, n) ==
    IF cmds[n].parent_ = nullptr THEN n ELSE RootOf(cmds, cmds[n].parent_)

\* the root command of the mode on top of the stack
TopRoot == mode_objs[mode_stack_[Len(mode_stack_)]].root_

\* C17: after any sequence of mode_add, mode_rm, mode_push and mode_pop,
\* process dispatches a line only to the command tree of the mode on top of
\* the stack: a command registered only in another mode, lower on the stack
\* or never pushed, is never executed, and the command of the top mode that
\* the line names is the one whose handler runs.
C17_TopOfStack ==
    ProcessReturned =>
        /\ call.dispatched # << >> => mode_stack_ # << >>
        /\ \A k \in 1 .. Len(call.invoked) :
              RootOf(commands, call.invoked[k].command) = TopRoot
        /\ (call.dispatched # << >> /\ call.dispatched[1] # EmptyString) =>
              IF commands[Unmatched(commands, TopRoot, call.dispatched[1]).command]
                   .handler_ # NoHandler
              THEN /\ Len(call.invoked) = 1
                   /\ call.invoked[1].command
                        = Unmatched(commands, TopRoot, call.dispatched[1]).command
              ELSE call.invoked = << >>

\* the line names a command with a handler in the mode at the bottom of the
\* stack only; a different mode is on top and nothing was executed
C17_Witness ==
    /\ ProcessReturned
    /\ Len(mode_stack_) = 2
    /\ mode_stack_[1] # mode_stack_[2]
    /\ call.dispatched # << >>
    /\ call.invoked = << >>
    /\ call.result = "no_command"
    /\ \E n \in 1 .. Len(commands) :
          /\ commands[n].parent_ = mode_objs[mode_stack_[1]].root_
          /\ commands[n].handler_ # NoHandler
          /\ commands[n].name_ = Tokens(call.dispatched[1])[1]

RECURSIVE Substituted(_, _)
Substituted(table, line) ==
    IF line = EmptyString THEN EmptyString
    ELSE IF Head(line) = "$" /\ Len(line) >= 2
    THEN ValueOf(table, <<line[2]>>) \o Substituted(table, Tail(Tail(line)))
    ELSE <<Head(line)>> \o Substituted(table, Tail(line))

\* a line that is a command text with one reference to a one-letter name
RefersTo(line) ==
    /\ Len(line) >= 2
    /\ line[Len(line) - 1] = "$"
    /\ NameChar(line[Len(line)])
    /\ NoDollarOrEquals(SubSeq(line, 1, Len(line) - 2))

FailedWithMessage(c, stack) ==
    \/ c.chain # << >> /\ c.chain[Len(c.chain)].err # EmptyString
    \/ c.cmd # EmptyString /\ stack = << >>
    \/ c.result = "no_command" /\ c.dispatched # << >> /\ c.invoked = << >>

\* C29: last_error() always holds the text of the most recent failure: after
\* a process call that returns no_command for an unmatched command, an empty
\* mode stack or a preprocessor error it is that call's non-empty message,
\* and a process call that does not fail leaves it unchanged, whether or not
\* preprocessors are registered.
C29_LastError ==
    [][(pc' = "done" /\ call'.op = "process")
       => /\ FailedWithMessage(call', mode_stack_) =>
                /\ call'.result = "no_command"
                /\ last_error_' # EmptyString
          /\ call'.result \in {"executed", "nop"} =>
                last_error_' = last_error_]_vars

----------------------------------------------------------------------------
(* Properties of the registry and the stack, checked under SpecModes. *)

\* C21: mode_add(name, ...) creates and registers a new mode and returns it
\* exactly when no mode is registered under the name; otherwise it returns
\* nothing and the registered mode, its command tree, the registry and the
\* mode stack are unchanged.
C21_ModeAdd ==
    [][(pc' = "done" /\ call'.op = "mode_add")
       => IF call'.name \in DOMAIN modes_
          THEN /\ call'.ptr = nullptr
               /\ UNCHANGED <<commands, mode_objs, modes_, mode_stack_>>
          ELSE /\ call'.ptr = Len(mode_objs) + 1
               /\ DOMAIN modes_' = DOMAIN modes_ \cup {call'.name}
               /\ modes_'[call'.name] = call'.ptr
               /\ \A k \in DOMAIN modes_ : modes_'[k] = modes_[k]
               /\ Len(mode_objs') = Len(mode_objs) + 1
               /\ SubSeq(mode_objs', 1, Len(mode_objs)) = mode_objs
               /\ mode_objs'[call'.ptr].root_ = Len(commands) + 1
               /\ Len(commands') = Len(commands) + 1
               /\ SubSeq(commands', 1, Len(commands)) = commands
               /\ commands'[Len(commands) + 1].parent_ = nullptr
               /\ commands'[Len(commands) + 1].name_ = call'.name
               /\ commands'[Len(commands) + 1].children_ = << >>
               /\ commands'[Len(commands) + 1].handler_ = NoHandler
               /\ UNCHANGED mode_stack_]_vars

\* mode_add was refused for the name of a mode that has a command, while
\* that mode is on the stack
C21_Witness ==
    /\ pc = "done"
    /\ call.op = "mode_add"
    /\ call.ptr = nullptr
    /\ commands[mode_objs[modes_[call.name]].root_].children_ # << >>
    /\ mode_stack_ = <<modes_[call.name]>>

\* C22: mode_rm(name) returns true exactly when a mode was registered under
\* the name, and afterwards none is; it never changes the mode stack or any
\* other registered mode, and mode_rm of an unknown name changes nothing.
C22_ModeRm ==
    [][(pc' = "done" /\ call'.op = "mode_rm")
       => /\ call'.result = (call'.name \in DOMAIN modes_)
          /\ DOMAIN modes_' = DOMAIN modes_ \ {call'.name}
          /\ \A k \in DOMAIN modes_' : modes_'[k] = modes_[k]
          /\ UNCHANGED <<mode_stack_, mode_objs, commands>>
          /\ call'.name \notin DOMAIN modes_ => UNCHANGED modes_]_vars

\* a mode on the stack was removed from the registry while another mode
\* stayed registered
C22_Witness ==
    /\ pc = "done"
    /\ call.op = "mode_rm"
    /\ call.result
    /\ DOMAIN modes_ # {}
    /\ mode_stack_ # << >>
    /\ \A k \in DOMAIN modes_ : modes_[k] # mode_stack_[1]

\* C23: mode_push(name) returns false and leaves the stack unchanged when
\* the name is not registered; otherwise it returns true, the stack grows by
\* exactly one entry, the registered mode becomes the top and all earlier
\* entries keep their order, also when that mode is already on the stack.
C23_ModePush ==
    [][(pc' = "done" /\ call'.op = "mode_push")
       => /\ IF call'.name \notin DOMAIN modes_
             THEN /\ call'.result = FALSE
                  /\ UNCHANGED mode_stack_
             ELSE /\ call'.result = TRUE
                  /\ Len(mode_stack_') = Len(mode_stack_) + 1
                  /\ mode_stack_'[Len(mode_stack_')] = modes_[call'.name]
                  /\ \A k \in 1 .. Len(mode_stack_) :
                        mode_stack_'[k] = mode_stack_[k]
          /\ UNCHANGED <<modes_, mode_objs, commands>>]_vars

\* a mode was pushed that was on the stack already
C23_Witness ==
    /\ pc = "done"
    /\ call.op = "mode_push"
    /\ call.result
    /\ Len(mode_stack_) = 2
    /\ mode_stack_[1] = mode_stack_[2]

\* C37: in every state reachable by mode_add, mode_rm, mode_push and
\* mode_pop each entry of the mode stack refers to a mode that is currently
\* registered, and the mode registered under a name is the same mode as any
\* stack entry of that name; in particular the active mode is never a mode
\* that has been removed from the registry.
C37_StackEntriesRegistered ==
    \A k \in 1 .. Len(mode_stack_) :
        LET name == commands[mode_objs[mode_stack_[k]].root_].name_
        IN  /\ name \in DOMAIN modes_
            /\ modes_[name] = mode_stack_[k]

----------------------------------------------------------------------------
(* Properties of reading, checked under SpecReader. *)

ReadReturned == pc = "done" /\ call.op \in {"read_line", "read_char"}

\* C32: every read the command line issues to the active mode's backend,
\* read_line and read_char alike, is immediately preceded by a reset() of
\* that same backend.
C32_ResetBeforeRead ==
    ReadReturned =>
        \A k \in 1 .. Len(call.backend_calls) :
            call.backend_calls[k].op \in {"read_line", "read_char"} =>
                /\ k > 1
                /\ call.backend_calls[k - 1]
                     = [backend |-> call.backend_calls[k].backend,
                        op |-> "reset"]

\* C33: end of input is absorbing for a backend: no operation clears the
\* eof_ of a mode's backend once it is set, every read_line and read_char
\* issued while that mode is active then returns false, and both return
\* false whenever the mode stack is empty.
C33_EndOfInputAbsorbing ==
    [][/\ \A m \in 1 .. Len(mode_objs) :
             mode_objs[m].backend_.eof_ =>
                 /\ m <= Len(mode_objs')
                 /\ mode_objs'[m].backend_.eof_
       /\ (pc' = "done" /\ call'.op \in {"read_line", "read_char"}) =>
             /\ mode_stack_ = << >> => ~call'.result
             /\ (/\ mode_stack_ # << >>
                 /\ mode_objs[back(mode_stack_)].backend_.eof_)
                => ~call'.result]_vars

\* a line was typed for the active mode after its backend had met the end of
\* input, and read_line failed, while the backend of another mode is open
C33_Witness ==
    /\ pc = "done"
    /\ call.op = "read_line"
    /\ ~call.ended
    /\ ~call.result
    /\ mode_stack_ # << >>
    /\ mode_objs[back(mode_stack_)].backend_.eof_
    /\ \E m \in 1 .. Len(mode_objs) : ~mode_objs[m].backend_.eof_

----------------------------------------------------------------------------
(* Properties of the completers, checked under SpecCompleter. *)

\* the completer of the backend of the mode that owns the tree of command n
OwnerCompleter(cmds, objs, n) ==
    objs[CHOOSE m \in 1 .. Len(objs) : objs[m].root_ = RootOf(cmds, n)]
        .backend_.completer_

\* C34: every successful add of a command registers, in the completer of the
\* mode that owns the tree, the new command's absolute_name() followed by
\* exactly one space, after the strings registered before and unless it is
\* registered already; a failed add registers nothing and the construction of
\* a mode's root registers nothing.
C34_AddRegistersName ==
    [][/\ (pc' = "done" /\ call'.op = "add") =>
             IF call'.ptr = nullptr
             THEN completers' = completers
             ELSE LET c == OwnerCompleter(commands, mode_objs, call'.command)
                      str == absolute_name(commands', call'.ptr) \o <<" ">>
                  IN  /\ completers'[c].strings_
                           = IF \E k \in 1 .. Len(completers[c].strings_) :
                                    completers[c].strings_[k] = str
                             THEN completers[c].strings_
                             ELSE Append(completers[c].strings_, str)
                      /\ completers'[c].callback_ = completers[c].callback_
                      /\ Len(completers') = Len(completers)
                      /\ \A d \in 1 .. Len(completers) :
                            d # c => completers'[d] = completers[d]
       /\ (pc' = "done" /\ call'.op = "mode_add") =>
             IF call'.ptr = nullptr
             THEN completers' = completers
             ELSE /\ SubSeq(completers', 1, Len(completers)) = completers
                  /\ Len(completers') = Len(completers) + 1
                  /\ completers'[mode_objs'[call'.ptr].backend_.completer_]
                         .strings_ = << >>]_vars

\* a command was added below a command of a mode and its absolute name with
\* one space is the last of several strings the mode's completer holds
C34_Witness ==
    /\ pc = "done"
    /\ call.op = "add"
    /\ call.ptr # nullptr
    /\ ~is_root(commands, call.command)
    /\ LET strings == completers[OwnerCompleter(commands, mode_objs, call.ptr)]
                          .strings_
       IN  /\ Len(strings) >= 2
           /\ strings[Len(strings)]
                = absolute_name(commands, call.ptr) \o <<" ">>

\* `str` starts with `prefix`
StartsWith(str, prefix) ==
    /\ Len(prefix) <= Len(str)
    /\ SubSeq(str, 1, Len(prefix)) = prefix

\* the registered candidates that start with `prefix`, in registration order
Candidates(strings, prefix) ==
    SelectSeq(strings, LAMBDA str : StartsWith(str, prefix))

\* C35: complete returns no_completion when no callback is installed;
\* returns not_found without invoking the callback when no registered
\* candidate starts with the prefix; and otherwise invokes the callback
\* exactly once with the prefix and exactly the registered candidates that
\* start with it, in registration order, stores the callback's result and
\* returns completed.
C35_Complete ==
    (pc = "done" /\ call.op = "complete") =>
        LET comp == completers[mode_objs[call.mode].backend_.completer_]
            candidates == Candidates(comp.strings_, call.prefix)
        IN  IF comp.callback_ = NoCallback
            THEN call.code = "no_completion" /\ call.invoked = << >>
            ELSE IF candidates = << >>
            THEN call.code = "not_found" /\ call.invoked = << >>
            ELSE /\ call.code = "completed"
                 /\ call.invoked
                      = <<[prefix |-> call.prefix, matches |-> candidates]>>
                 /\ call.result = comp.callback_

\* the offsets at which `str` stands in `strings`
Occurrences(strings, str) == {k \in 1 .. Len(strings) : strings[k] = str}

\* C36: the strings of a completer are a set: after any sequence of
\* add_completion, remove_completion and replace_completions calls and of
\* command adds, each string is held at most once, so that one
\* remove_completion of a string leaves no occurrence of it.
C36_CompletionsAreASet ==
    /\ \A c \in 1 .. Len(completers) :
          \A k \in 1 .. Len(completers[c].strings_) :
              Occurrences(completers[c].strings_, completers[c].strings_[k])
                = {k}
    /\ (pc = "done" /\ call.op = "remove_completion") =>
          Occurrences(completers[mode_objs[call.mode].backend_.completer_]
                          .strings_, call.str) = {}

----------------------------------------------------------------------------
(* Properties of the commands of a mode, checked under SpecClauses. *)

\* the top-level commands of mode m that carry `name`
TopLevel(cmds, objs, m, name) ==
    {n \in 1 .. Len(cmds) : /\ cmds[n].parent_ = objs[m].root_
                            /\ cmds[n].name_ = name}

\* C38: mode::add(name, description, handler) with a name that is empty or
\* already used by a top-level command of that mode returns no command and
\* leaves the existing command's handler, description and children (and all
\* else) unchanged; consequently add_all given two clauses with the same name
\* keeps the first clause's handler and drops the second.
C38_RefusedAddKeepsCommand ==
    [][/\ (/\ pc' = "done"
           /\ call'.op = "add_handled"
           /\ \/ call'.name = EmptyString
              \/ TopLevel(commands, mode_objs, call'.mode, call'.name) # {})
             => /\ call'.ptr = nullptr
                /\ commands' = commands
                /\ completers' = completers
       /\ (/\ pc' = "done"
           /\ call'.op = "add_all"
           /\ call'.clauses[1].cmd_name = call'.clauses[2].cmd_name) =>
             LET first == call'.clauses[1]
             IN  IF TopLevel(commands, mode_objs, call'.mode, first.cmd_name)
                      # {}
                 THEN commands' = commands
                 ELSE /\ Len(commands') = Len(commands) + 1
                      /\ TopLevel(commands', mode_objs, call'.mode,
                                  first.cmd_name) = {Len(commands')}
                      /\ commands'[Len(commands')].handler_ = first.cmd_fun
                      /\ commands'[Len(commands')].description_
                           = first.cmd_desc]_vars

\* mode::add was refused for the name of a command that has a child, another
\* handler and another description than the ones handed over
C38_Witness ==
    /\ pc = "done"
    /\ call.op = "add_handled"
    /\ call.ptr = nullptr
    /\ \E n \in TopLevel(commands, mode_objs, call.mode, call.name) :
          /\ commands[n].children_ # << >>
          /\ commands[n].handler_ \notin {NoHandler, call.func}
          /\ commands[n].description_ # call.desc

----------------------------------------------------------------------------
(* Properties of one parse followed step by step, checked under SpecScan. *)

\* what the steps leave when parse has returned is what parse as a whole
\* leaves
ScanAgrees ==
    ParseReturned =>
        LET r == parse(call.before, EmptyString, call.in, EmptyString, FALSE)
        IN  /\ call.err = r.err
            /\ call.out = r.out
            /\ variables_ = r.variables_

\* the activations of parse under way, outermost first
Frames == IF pc = "running" THEN call.frames ELSE << >>

\* C39: parse terminates on every finite input line: each pass through the
\* loop advances the scanner of the innermost activation by exactly one
\* character and no scanner ever moves backwards, and assignment handling
\* recurses at most one level deep, because the parse of a right-hand side
\* is a sub-parse and a sub-parse never starts another.
C39_ParseTerminates ==
    /\ (pc = "running") ~> (pc = "done")
    /\ [](/\ Len(Frames) <= 2
          /\ \A d \in 1 .. Len(Frames) :
                /\ Frames[d].sub_parse <=> d = 2
                /\ Frames[d].s.i <= Len(Frames[d].in))
    /\ [][(pc = "running" /\ pc' = "running") =>
             /\ Len(Frames') >= Len(Frames)
             /\ \A d \in 1 .. Len(Frames) - 1 :
                   Frames'[d].s.i = Frames[d].s.i
             /\ Len(Frames') = Len(Frames) =>
                   Frames'[Len(Frames)].s.i = Frames[Len(Frames)].s.i + 1
             /\ Len(Frames') > Len(Frames) =>
                   /\ Len(Frames') = Len(Frames) + 1
                   /\ Frames'[Len(Frames)].s.i = Frames[Len(Frames)].s.i
                   /\ Frames'[Len(Frames')].s.i = 0]_vars

\* the parse of a right-hand side has passed over a '=' that follows a name
C39_Witness ==
    /\ pc = "running"
    /\ Len(call.frames) = 2
    /\ LET top == call.frames[2]
       IN  /\ top.s.i = 2
           /\ top.in[1] = "x"
           /\ top.in[2] = "="

====
